---------------------------- MODULE Spec2Model ----------------------------
(***************************************************************************)
(* A model of the guest-side VMCI queue pair registry of open-vm-tools,    *)
(* modules/linux/vmci/vmciQueuePair.c: the list of queue pair entries, the *)
(* resource id allocator, alloc / local attach / detach, the conversion of *)
(* queue pairs to local ones around hibernation, and module exit.          *)
(*                                                                         *)
(* Threads call the public entry points concurrently.  A step of the model *)
(* is a maximal piece of one call that touches shared state under one set  *)
(* of locks; the places where a call gives up or takes a lock, or where it *)
(* leaves the list in an intermediate state, are separate steps.           *)
(* ASSERTs are compiled out (release build): the model goes on where a     *)
(* debug build would panic.                                                *)
(***************************************************************************)
EXTENDS Integers, Sequences, FiniteSets, TLC

(***************************************************************************)
(* Bounds.  VMCIId is a 32 bit unsigned integer in the source; the model   *)
(* keeps the wrap-around arithmetic with a narrower word.                  *)
(***************************************************************************)
IdBits == 2

\* Number of VMCIQueue objects the kernel allocator can hand out at once.
NumQueues == 4

\* Longest hibernateFailedList a run builds up.
MaxFailed == 2

\* 1023 in the source's headers; scaled with IdBits.
VMCI_RESERVED_RESOURCE_ID_MAX == 0

IdMod == 2 ^ IdBits

\* 0xffffffff: the all-ones id.
VMCI_INVALID_ID == IdMod - 1

PAGE_SIZE == 4096

VMCI_SUCCESS == 0
VMCI_ERROR_INVALID_ARGS == -2
VMCI_ERROR_NO_MEM == -3
VMCI_ERROR_NO_ACCESS == -7
VMCI_ERROR_UNAVAILABLE == -20
VMCI_ERROR_NOT_FOUND == -21
VMCI_ERROR_ALREADY_EXISTS == -22
VMCI_ERROR_QUEUEPAIR_MISMATCH == -31
VMCI_ERROR_DEVICE_NOT_FOUND == -39

VMCI_QPFLAG_ATTACH_ONLY == "ATTACH_ONLY"
VMCI_QPFLAG_LOCAL == "LOCAL"
VMCI_QP_ALL_FLAGS == {VMCI_QPFLAG_ATTACH_ONLY, VMCI_QPFLAG_LOCAL}

\* The context id of this guest.
VMCI_GetContextID == 1

NoThread == 0

VMCI_MAKE_HANDLE(cid, rid) == [context |-> cid, resource |-> rid]
VMCI_INVALID_HANDLE == VMCI_MAKE_HANDLE(VMCI_INVALID_ID, VMCI_INVALID_ID)
VMCI_HANDLE_EQUAL(h1, h2) ==
    h1.context = h2.context /\ h1.resource = h2.resource
VMCI_HANDLE_INVALID(h) == VMCI_HANDLE_EQUAL(h, VMCI_INVALID_HANDLE)

CEILING(x, y) == (x + y - 1) \div y

(***************************************************************************)
(* The arguments callers pass and the results collaborators return.        *)
(***************************************************************************)
OtherContextID == VMCI_GetContextID + 1

FirstRID == VMCI_RESERVED_RESOURCE_ID_MAX + 1

\* A client thread calling with a few arguments and explicit handles, and
\* the power management thread.
FewArgs ==
    [ calls   |-> <<{"Alloc", "Detach", "Exit"}, {"Convert"}>>,
      handles |-> {VMCI_MAKE_HANDLE(VMCI_GetContextID, FirstRID),
                   VMCI_MAKE_HANDLE(VMCI_GetContextID, FirstRID + 1)},
      peers   |-> {VMCI_INVALID_ID},
      flags   |-> {{}, {VMCI_QPFLAG_LOCAL},
                   {VMCI_QPFLAG_LOCAL, VMCI_QPFLAG_ATTACH_ONLY},
                   {"UNKNOWN_BIT"}},
      sizes   |-> {<<0, 0>>, <<200, 200>>},
      nqueues |-> NumQueues ]

\* One thread calling with every kind of handle, peer and flags.
AllArgs ==
    [ calls   |-> <<{"Alloc", "Detach", "Convert", "Exit"}, {}>>,
      handles |-> { VMCI_MAKE_HANDLE(c, FirstRID) :
                       c \in {VMCI_GetContextID, OtherContextID} },
      peers   |-> {VMCI_INVALID_ID, VMCI_GetContextID, OtherContextID},
      flags   |-> (SUBSET VMCI_QP_ALL_FLAGS) \cup {{"UNKNOWN_BIT"}},
      sizes   |-> {<<0, 0>>, <<100, 200>>},
      nqueues |-> NumQueues ]

\* One thread mixing explicit handles with auto-assigned ones.
AutoArgs ==
    [ calls   |-> <<{"Alloc", "Detach", "Convert", "Exit"}, {}>>,
      handles |-> {VMCI_MAKE_HANDLE(VMCI_GetContextID, FirstRID + 1),
                   VMCI_INVALID_HANDLE},
      peers   |-> {VMCI_INVALID_ID},
      flags   |-> {{}, {VMCI_QPFLAG_LOCAL}},
      sizes   |-> {<<200, 200>>},
      nqueues |-> NumQueues ]

\* One thread creating and attaching to one queue pair, with sizes and
\* flags that match it and that do not.
AttachArgs ==
    [ calls   |-> <<{"Alloc", "Detach", "Convert", "Exit"}, {}>>,
      handles |-> {VMCI_MAKE_HANDLE(VMCI_GetContextID, FirstRID)},
      peers   |-> {VMCI_INVALID_ID},
      flags   |-> SUBSET VMCI_QP_ALL_FLAGS,
      sizes   |-> {<<100, 200>>, <<200, 100>>, <<200, 200>>},
      nqueues |-> NumQueues ]

\* What VMCI_SendDatagram may return for a queue pair hypercall.
HyperCallResults ==
    {VMCI_SUCCESS, VMCI_ERROR_NOT_FOUND, VMCI_ERROR_INVALID_ARGS}

\* What VMCIEvent_Dispatch may return.
DispatchResults == {VMCI_SUCCESS, VMCI_ERROR_NO_MEM}

VARIABLES
    queuePairList,            \* [head, hibernate, mutex]
    hibernateFailedList,      \* the VMCIHandleArray of handles
    hibernateFailedListLock,  \* its holder, or NoThread
    queuePairRID,             \* the static counter of QueuePairEntryCreate
    queues,                   \* the VMCIQueue objects of the kernel allocator
    ppnSets,                  \* number of PPN sets allocated and not freed
    th,                       \* per thread: position and locals of its call
    exited,                   \* VMCIQueuePair_Exit has run
    args,                     \* the arguments the callers of this run pass
    last                      \* what the last step returned and sent out

vars == <<queuePairList, hibernateFailedList, hibernateFailedListLock,
          queuePairRID, queues, ppnSets, th, exited, args, last>>

Threads == {1, 2}

(***************************************************************************)
(* Kernel allocator of VMCIQueue objects.                                  *)
(***************************************************************************)
FreeSlots(qs) == {q \in DOMAIN qs : qs[q].state = "free"}

\* VMCI_AllocQueue: the slot handed out, 0 (NULL) when there is none.
VMCI_AllocQueue(qs) ==
    IF FreeSlots(qs) = {} THEN 0
    ELSE CHOOSE q \in FreeSlots(qs) : \A r \in FreeSlots(qs) : q <= r

NewQueue == [state |-> "allocated", snapshot |-> FALSE]

\* VMCI_FreeQueue: freeing what is not allocated corrupts the allocator.
VMCI_FreeQueue(qs, q) ==
    IF qs[q].state = "allocated"
    THEN [qs EXCEPT ![q] = [state |-> "free", snapshot |-> FALSE]]
    ELSE [qs EXCEPT ![q] = [state |-> "corrupt", snapshot |-> FALSE]]

\* VMCI_ConvertToLocalQueue: the queue now holds a local copy of its pages.
VMCI_ConvertToLocalQueue(qs, q) == [qs EXCEPT ![q].snapshot = TRUE]

\* VMCI_RevertToNonLocalQueue: the queue holds its old pages again.
VMCI_RevertToNonLocalQueue(qs, q) == [qs EXCEPT ![q].snapshot = FALSE]

(***************************************************************************)
(* The queue pair list.                                                    *)
(***************************************************************************)
\* QueuePairList_FindEntry: index of the first entry with the handle, 0 if
\* there is none or the handle is invalid.
QueuePairList_FindEntry(head, handle) ==
    IF VMCI_HANDLE_INVALID(handle) THEN 0
    ELSE IF \E i \in 1..Len(head) : VMCI_HANDLE_EQUAL(head[i].handle, handle)
         THEN CHOOSE i \in 1..Len(head) :
                 /\ VMCI_HANDLE_EQUAL(head[i].handle, handle)
                 /\ \A j \in 1..(i - 1) :
                       ~VMCI_HANDLE_EQUAL(head[j].handle, handle)
         ELSE 0

QueuePairList_AddEntry(head, entry) == Append(head, entry)

\* A variant that leaves the entry linked.
QueuePairList_RemoveEntry_Keep(head, i) == head

\* A variant that unlinks the first item of the list instead.
QueuePairList_RemoveEntry_First(head, i) == Tail(head)

QueuePairList_RemoveEntry(head, i) ==
    [j \in 1..(Len(head) - 1) |-> IF j < i THEN head[j] ELSE head[j + 1]]

(***************************************************************************)
(* The handle array behind hibernateFailedList.                            *)
(***************************************************************************)
VMCIHandleArray_AppendEntry(array, handle) == Append(array, handle)

\* The first entry equal to the handle is overwritten by the tail.
VMCIHandleArray_RemoveEntry(array, handle) ==
    IF \E i \in 1..Len(array) : VMCI_HANDLE_EQUAL(array[i], handle)
    THEN LET i == CHOOSE k \in 1..Len(array) :
                     /\ VMCI_HANDLE_EQUAL(array[k], handle)
                     /\ \A j \in 1..(k - 1) :
                           ~VMCI_HANDLE_EQUAL(array[j], handle)
         IN  [j \in 1..(Len(array) - 1) |->
                 IF j = i THEN array[Len(array)] ELSE array[j]]
    ELSE array

(***************************************************************************)
(* QueuePairEntryCreate: the resource id allocator and the new entry.      *)
(***************************************************************************)
\* A variant of the increment without the skip.
NextRID_NoSkip(rid) == (rid + 1) % IdMod

\* queuePairRID++ and the skip over the reserved ids on overflow.
NextRID(rid) ==
    IF (rid + 1) % IdMod = 0
    THEN VMCI_RESERVED_RESOURCE_ID_MAX + 1
    ELSE (rid + 1) % IdMod

\* A variant of the loop that takes the counter's id without looking it up
\* in the list.
GenerateRID_NoLookup(head, rid, oldRID) ==
    [handle |-> VMCI_MAKE_HANDLE(VMCI_GetContextID, rid), found |-> FALSE,
     rid |-> NextRID(rid)]

\* A variant of the loop that gives up when the counter overflows.
RECURSIVE GenerateRID_NoWrap(_, _, _)
GenerateRID_NoWrap(head, rid, oldRID) ==
    LET handle == VMCI_MAKE_HANDLE(VMCI_GetContextID, rid)
        found  == QueuePairList_FindEntry(head, handle) # 0
        next   == NextRID(rid)
    IN  IF found /\ next # oldRID /\ next # VMCI_RESERVED_RESOURCE_ID_MAX + 1
        THEN GenerateRID_NoWrap(head, next, oldRID)
        ELSE [handle |-> handle, found |-> found, rid |-> next]

\* The do/while loop: [handle, found, rid] when it stops.
RECURSIVE GenerateRID(_, _, _)
GenerateRID(head, rid, oldRID) ==
    LET handle == VMCI_MAKE_HANDLE(VMCI_GetContextID, rid)
        found  == QueuePairList_FindEntry(head, handle) # 0
        next   == NextRID(rid)
    IN  IF found /\ next # oldRID
        THEN GenerateRID(head, next, oldRID)
        ELSE [handle |-> handle, found |-> found, rid |-> next]

NewEntry(handle, peer, flags, produceSize, consumeSize, produceQ, consumeQ, garbage) ==
    [ handle      |-> handle,
      peer        |-> peer,
      flags       |-> flags,
      produceSize |-> produceSize,
      consumeSize |-> consumeSize,
      numPPNs     |-> CEILING(produceSize, PAGE_SIZE)
                      + CEILING(consumeSize, PAGE_SIZE) + 2,
      ppnSet      |-> FALSE,
      produceQ    |-> produceQ,
      consumeQ    |-> consumeQ,
      refCount    |-> 0,
      \* never assigned by QueuePairEntryCreate: whatever the memory held
      hibernateFailure |-> garbage,
      \* history, not a field of QueuePairEntry: VMCIQPMarkHibernateFailed
      \* has been called for the entry
      marked      |-> FALSE ]

(***************************************************************************)
(* QueuePairEntryDestroy: the allocator state after the entry's PPN set    *)
(* and both queues are freed.                                              *)
(***************************************************************************)
VMCI_FreePPNSet(n, entry) == IF entry.ppnSet THEN n - 1 ELSE n

\* A variant that frees the produce queue twice and the consume queue never.
QueuePairEntryDestroy_ProduceTwice(qs, entry) ==
    VMCI_FreeQueue(VMCI_FreeQueue(qs, entry.produceQ), entry.produceQ)

QueuePairEntryDestroy(qs, entry) ==
    VMCI_FreeQueue(VMCI_FreeQueue(qs, entry.produceQ), entry.consumeQ)

\* What a thread keeps of an entry it is about to destroy.
Dying(entry) ==
    [produceQ |-> entry.produceQ, consumeQ |-> entry.consumeQ,
     ppnSet |-> entry.ppnSet, refCount |-> entry.refCount]

(***************************************************************************)
(* Per-thread state and the record of the last step.                       *)
(***************************************************************************)
Idle == [pc |-> "idle", entry |-> <<>>, idx |-> 0, produceQ |-> 0,
         consumeQ |-> 0, result |-> 0, oldRID |-> <<>>,
         deviceReset |-> FALSE,
         \* the queue whose mutex the thread holds, 0 when it holds none
         queueMutex |-> 0]

Event(kind, handle, result) ==
    [ev |-> kind, handle |-> handle, result |-> result]

Step(op, events) ==
    [op |-> op, returned |-> FALSE, result |-> 0,
     handle |-> VMCI_INVALID_HANDLE, produceQ |-> 0, consumeQ |-> 0,
     events |-> events]

Return(op, result, events) ==
    [Step(op, events) EXCEPT !.returned = TRUE, !.result = result]

MutexFree == queuePairList.mutex = NoThread

\* A variant that returns without the mutex.
Lock_NotTaken(qpl, t) == qpl

Lock(qpl, t) == [qpl EXCEPT !.mutex = t]
Unlock(qpl) == [qpl EXCEPT !.mutex = NoThread]

\* Thread t may enter the entry point.
CanCall(t, entryPoint) ==
    /\ ~exited
    /\ th[t].pc = "idle"
    /\ entryPoint \in args.calls[t]

InitWith(a) ==
    /\ args = a
    /\ queuePairList = [head |-> <<>>, hibernate |-> 0, mutex |-> NoThread]
    /\ hibernateFailedList = <<>>
    /\ hibernateFailedListLock = NoThread
    /\ queuePairRID = VMCI_RESERVED_RESOURCE_ID_MAX + 1
    /\ queues = [q \in 1..a.nqueues |->
                    [state |-> "free", snapshot |-> FALSE]]
    /\ ppnSets = 0
    /\ th = [t \in Threads |-> Idle]
    /\ exited = FALSE
    /\ last = Step("VMCIQueuePair_Init", <<>>)

Init == InitWith(FewArgs)

InitAllArgs == InitWith(AllArgs)

InitAutoArgs == InitWith(AutoArgs)

InitAttachArgs == InitWith(AttachArgs)

(***************************************************************************)
(* VMCIQueuePair_Alloc, VMCIQueuePair_AllocPriv, VMCIQueuePairAllocHelper  *)
(***************************************************************************)
\* A return through "error:" with nothing to free, or "errorKeepEntry:".
AllocReturn(t, result, events) ==
    /\ last' = Return("VMCIQueuePair_Alloc", result, events)
    /\ UNCHANGED <<queuePairList, hibernateFailedList,
                   hibernateFailedListLock, queues, th, exited, args>>

\* "goto error" with an entry or queues to free once the lock is released.
AllocGotoError(t, result, entry, produceQ, consumeQ, qs, events) ==
    /\ th' = [th EXCEPT ![t] = [Idle EXCEPT !.pc = "alloc_error",
                                            !.entry = entry,
                                            !.produceQ = produceQ,
                                            !.consumeQ = consumeQ,
                                            !.result = result]]
    /\ queues' = qs
    /\ last' = Step("VMCIQueuePairAllocHelper", events)
    /\ UNCHANGED <<queuePairList, hibernateFailedList,
                   hibernateFailedListLock, exited, args>>

\* A variant of the test that compares the sizes only.
AttachMismatch_SizesOnly(entry, produceSize, consumeSize, flags) ==
    \/ entry.produceSize # consumeSize
    \/ entry.consumeSize # produceSize

\* The test of the local attach case that the attacher mirrors the creator.
AttachMismatch(entry, produceSize, consumeSize, flags) ==
    \/ entry.produceSize # consumeSize
    \/ entry.consumeSize # produceSize
    \/ entry.flags # flags \ {VMCI_QPFLAG_ATTACH_ONLY}

\* A variant of the checks that lets every peer pass.
LocalCreateCheck_AnyPeer(entry) ==
    IF entry.handle.context # VMCI_GetContextID
    THEN VMCI_ERROR_NO_ACCESS
    ELSE IF VMCI_QPFLAG_ATTACH_ONLY \in entry.flags
         THEN VMCI_ERROR_NOT_FOUND
         ELSE VMCI_SUCCESS

\* The checks of the local create case: VMCI_SUCCESS when they pass.
LocalCreateCheck(entry) ==
    IF \/ entry.handle.context # VMCI_GetContextID
       \/ /\ entry.peer # VMCI_INVALID_ID
          /\ entry.peer # VMCI_GetContextID
    THEN VMCI_ERROR_NO_ACCESS
    ELSE IF VMCI_QPFLAG_ATTACH_ONLY \in entry.flags
         THEN VMCI_ERROR_NOT_FOUND
         ELSE VMCI_SUCCESS

\* A variant of the test that is off by one.
AttachFull_OffByOne(entry) == entry.refCount > 2

\* The local attach case refuses a third reference.
AttachFull(entry) == entry.refCount > 1

\* A variant that hands the attacher the queues as the creator has them.
AttachQueues_NoSwap(entry) ==
    [produceQ |-> entry.produceQ, consumeQ |-> entry.consumeQ]

\* What the attacher gets: the queues of the creator, swapped.
AttachQueues(entry) ==
    [produceQ |-> entry.consumeQ, consumeQ |-> entry.produceQ]

\* A variant that takes every entry found for a local one.
LocalAttachCase_Any(entry) == TRUE

\* An entry found is attached to only if it is local.
LocalAttachCase(entry) == VMCI_QPFLAG_LOCAL \in entry.flags

\* A variant that leaves through "error:" with the entry it found when the
\* entry is not local.
AllocAttach_GotoError(t, i, produceSize, consumeSize, flags) ==
    LET entry == queuePairList.head[i] IN
    IF LocalAttachCase(entry)
    THEN IF AttachFull(entry)
         THEN AllocReturn(t, VMCI_ERROR_UNAVAILABLE, <<>>)
         ELSE IF AttachMismatch(entry, produceSize, consumeSize, flags)
         THEN AllocReturn(t, VMCI_ERROR_QUEUEPAIR_MISMATCH, <<>>)
         ELSE \E r \in DispatchResults :
                LET events == <<Event("QP_PEER_ATTACH", entry.handle, r)>> IN
                IF r < VMCI_SUCCESS
                THEN AllocReturn(t, r, events)
                ELSE /\ th' = [th EXCEPT ![t] =
                                 [Idle EXCEPT !.pc = "alloc_out",
                                              !.idx = i,
                                              !.produceQ =
                                                 AttachQueues(entry).produceQ,
                                              !.consumeQ =
                                                 AttachQueues(entry).consumeQ]]
                     /\ queuePairList' = Lock(queuePairList, t)
                     /\ last' = Step("VMCIQueuePairAllocHelper", events)
                     /\ UNCHANGED <<hibernateFailedList,
                                    hibernateFailedListLock, queues, exited,
                                    args>>
    ELSE AllocGotoError(t, VMCI_ERROR_ALREADY_EXISTS, <<Dying(entry)>>,
                        entry.produceQ, entry.consumeQ, queues, <<>>)

\* An entry was found for the handle.
AllocAttach(t, i, produceSize, consumeSize, flags) ==
    LET entry == queuePairList.head[i] IN
    IF LocalAttachCase(entry)
    THEN IF AttachFull(entry)
         THEN AllocReturn(t, VMCI_ERROR_UNAVAILABLE, <<>>)
         ELSE IF AttachMismatch(entry, produceSize, consumeSize, flags)
         THEN AllocReturn(t, VMCI_ERROR_QUEUEPAIR_MISMATCH, <<>>)
         ELSE \E r \in DispatchResults :
                LET events == <<Event("QP_PEER_ATTACH", entry.handle, r)>> IN
                IF r < VMCI_SUCCESS
                THEN AllocReturn(t, r, events)
                ELSE /\ th' = [th EXCEPT ![t] =
                                 [Idle EXCEPT !.pc = "alloc_out",
                                              !.idx = i,
                                              !.produceQ =
                                                 AttachQueues(entry).produceQ,
                                              !.consumeQ =
                                                 AttachQueues(entry).consumeQ]]
                     /\ queuePairList' = Lock(queuePairList, t)
                     /\ last' = Step("VMCIQueuePairAllocHelper", events)
                     /\ UNCHANGED <<hibernateFailedList,
                                    hibernateFailedListLock, queues, exited,
                                    args>>
    ELSE AllocReturn(t, VMCI_ERROR_ALREADY_EXISTS, <<>>)

\* The entry is complete: VMCI_InitQueueMutex and QueuePairList_AddEntry.
AllocInsert(t, entry, oldRID, qs, events) ==
    /\ queuePairList' =
          [Lock(queuePairList, t) EXCEPT
              !.head = QueuePairList_AddEntry(queuePairList.head, entry)]
    /\ th' = [th EXCEPT ![t] = [Idle EXCEPT !.pc = "alloc_out",
                                            !.idx = Len(queuePairList.head) + 1,
                                            !.produceQ = entry.produceQ,
                                            !.consumeQ = entry.consumeQ,
                                            !.oldRID = oldRID]]
    /\ queues' = qs
    /\ last' = Step("VMCIQueuePairAllocHelper", events)
    /\ UNCHANGED <<hibernateFailedList, hibernateFailedListLock, exited,
                   args>>

\* A variant that inserts the entry whatever the alloc hypercall answers.
AllocNotify_InsertAlways(t, entry, oldRID, qs) ==
    IF VMCI_QPFLAG_LOCAL \in entry.flags
    THEN IF LocalCreateCheck(entry) < VMCI_SUCCESS
         THEN AllocGotoError(t, LocalCreateCheck(entry), <<Dying(entry)>>,
                             entry.produceQ, entry.consumeQ, qs, <<>>)
         ELSE AllocInsert(t, entry, oldRID, qs, <<>>)
    ELSE \E r \in HyperCallResults :
           AllocInsert(t, entry, oldRID, qs,
                       <<Event("QUEUEPAIR_ALLOC", entry.handle, r)>>)

\* After VMCI_AllocPPNSet: the local create checks or the alloc hypercall,
\* then the insertion.
AllocNotify(t, entry, oldRID, qs) ==
    IF VMCI_QPFLAG_LOCAL \in entry.flags
    THEN IF LocalCreateCheck(entry) < VMCI_SUCCESS
         THEN AllocGotoError(t, LocalCreateCheck(entry), <<Dying(entry)>>,
                             entry.produceQ, entry.consumeQ, qs, <<>>)
         ELSE AllocInsert(t, entry, oldRID, qs, <<>>)
    ELSE \/ \* VMCIQueuePairAlloc_HyperCall has no memory for the message
            AllocGotoError(t, VMCI_ERROR_NO_MEM, <<Dying(entry)>>,
                           entry.produceQ, entry.consumeQ, qs, <<>>)
         \/ \E r \in HyperCallResults :
              LET events == <<Event("QUEUEPAIR_ALLOC", entry.handle, r)>> IN
              IF r < VMCI_SUCCESS
              THEN AllocGotoError(t, r, <<Dying(entry)>>, entry.produceQ,
                                  entry.consumeQ, qs, events)
              ELSE AllocInsert(t, entry, oldRID, qs, events)

\* No entry was found: the create path, up to the insertion in the list.
AllocCreate(t, handle, peer, flags, produceSize, consumeSize) ==
    LET p   == VMCI_AllocQueue(queues)
        qs1 == IF p = 0 THEN queues ELSE [queues EXCEPT ![p] = NewQueue]
        c   == VMCI_AllocQueue(qs1)
        qs2 == IF c = 0 THEN qs1 ELSE [qs1 EXCEPT ![c] = NewQueue]
        gen == IF VMCI_HANDLE_INVALID(handle)
               THEN GenerateRID(queuePairList.head, queuePairRID, queuePairRID)
               ELSE [handle |-> handle, found |-> FALSE, rid |-> queuePairRID]
    IN
    \/ \* VMCI_AllocQueue(produceSize) returns NULL
       /\ AllocReturn(t, VMCI_ERROR_NO_MEM, <<>>)
       /\ UNCHANGED <<queuePairRID, ppnSets>>
    \/ \* VMCI_AllocQueue(consumeSize) returns NULL
       /\ p # 0
       /\ AllocGotoError(t, VMCI_ERROR_NO_MEM, <<>>, p, 0, qs1, <<>>)
       /\ UNCHANGED <<queuePairRID, ppnSets>>
    \/ \* QueuePairEntryCreate returns NULL: no rid is free, or no memory
       /\ p # 0 /\ c # 0
       /\ AllocGotoError(t, VMCI_ERROR_NO_MEM, <<>>, p, c, qs2, <<>>)
       /\ queuePairRID' = gen.rid
       /\ UNCHANGED ppnSets
    \/ /\ p # 0 /\ c # 0
       /\ ~gen.found
       /\ queuePairRID' = gen.rid
       /\ \E garbage \in BOOLEAN :
            LET entry == NewEntry(gen.handle, peer, flags, produceSize,
                                  consumeSize, p, c, garbage)
            IN
            \/ \* VMCI_AllocPPNSet fails
               /\ AllocGotoError(t, VMCI_ERROR_NO_MEM, <<Dying(entry)>>, p,
                                 c, qs2, <<>>)
               /\ UNCHANGED ppnSets
            \/ /\ ppnSets' = ppnSets + 1
               /\ AllocNotify(t, [entry EXCEPT !.ppnSet = TRUE],
                              IF VMCI_HANDLE_INVALID(handle)
                              THEN <<queuePairRID>> ELSE <<>>, qs2)

\* A variant of the test that stops the local requests instead.
HibernateGate_Inverted(flags) ==
    queuePairList.hibernate = 1 /\ VMCI_QPFLAG_LOCAL \in flags

\* Creating non-local queue pairs is not allowed while hibernating.
HibernateGate(flags) ==
    queuePairList.hibernate = 1 /\ VMCI_QPFLAG_LOCAL \notin flags

\* shutdown is what VMCI_DeviceShutdown() answers.
VMCIQueuePairAllocHelper(t, shutdown, handle, peer, flags, produceSize, consumeSize) ==
    LET i == QueuePairList_FindEntry(queuePairList.head, handle) IN
    IF shutdown
    THEN /\ AllocReturn(t, VMCI_ERROR_DEVICE_NOT_FOUND, <<>>)
         /\ UNCHANGED <<queuePairRID, ppnSets>>
    ELSE IF HibernateGate(flags)
    THEN /\ AllocReturn(t, VMCI_ERROR_UNAVAILABLE, <<>>)
         /\ UNCHANGED <<queuePairRID, ppnSets>>
    ELSE IF i # 0
    THEN /\ AllocAttach(t, i, produceSize, consumeSize, flags)
         /\ UNCHANGED <<queuePairRID, ppnSets>>
    ELSE AllocCreate(t, handle, peer, flags, produceSize, consumeSize)

\* The argument check of VMCIQueuePair_AllocPriv.
AllocInvalidArgs(flags, produceSize, consumeSize) ==
    \/ (produceSize = 0 /\ consumeSize = 0)
    \/ flags \ VMCI_QP_ALL_FLAGS # {}

VMCIQueuePair_Alloc(t) ==
    /\ CanCall(t, "Alloc")
    /\ \E handle \in args.handles, peer \in args.peers,
          flags \in args.flags, size \in args.sizes :
         IF AllocInvalidArgs(flags, size[1], size[2])
         THEN /\ AllocReturn(t, VMCI_ERROR_INVALID_ARGS, <<>>)
              /\ UNCHANGED <<queuePairRID, ppnSets>>
         ELSE /\ MutexFree
              /\ \E shutdown \in BOOLEAN :
                   VMCIQueuePairAllocHelper(t, shutdown, handle, peer, flags,
                                            size[1], size[2])

\* A variant that initializes the headers for every local entry.
HeaderInit_AnyLocal(entry) == VMCI_QPFLAG_LOCAL \in entry.flags

\* The headers are initialized on a local create: the first reference.
HeaderInit(entry) ==
    VMCI_QPFLAG_LOCAL \in entry.flags /\ entry.refCount = 1

\* "out:" of VMCIQueuePairAllocHelper, common to create and local attach.
AllocOut(t) ==
    /\ th[t].pc = "alloc_out"
    /\ LET i == th[t].idx
           entry == [queuePairList.head[i] EXCEPT !.refCount = @ + 1]
           init == HeaderInit(entry)
       IN
       /\ queuePairList' =
             Unlock([queuePairList EXCEPT !.head[i] = entry])
       /\ last' = [Return("VMCIQueuePair_Alloc", VMCI_SUCCESS,
                          IF init
                          THEN <<Event("QueueHeader_Init", entry.handle,
                                       th[t].produceQ),
                                 Event("QueueHeader_Init", entry.handle,
                                       th[t].consumeQ)>>
                          ELSE <<>>)
                   EXCEPT !.handle = entry.handle,
                          !.produceQ = th[t].produceQ,
                          !.consumeQ = th[t].consumeQ]
    /\ th' = [th EXCEPT ![t] = Idle]
    /\ UNCHANGED <<hibernateFailedList, hibernateFailedListLock,
                   queuePairRID, queues, ppnSets, exited, args>>

\* A variant that forgets the consume queue.
FreeQueues_ProduceOnly(qs, produceQ, consumeQ) ==
    IF produceQ # 0 THEN VMCI_FreeQueue(qs, produceQ) ELSE qs

\* "error:" without an entry: the queues allocated so far are freed.
FreeQueues(qs, produceQ, consumeQ) ==
    LET qs1 == IF produceQ # 0 THEN VMCI_FreeQueue(qs, produceQ) ELSE qs
    IN  IF consumeQ # 0 THEN VMCI_FreeQueue(qs1, consumeQ) ELSE qs1

\* "error:" of VMCIQueuePairAllocHelper after QueuePairList_Unlock().
AllocError(t) ==
    /\ th[t].pc = "alloc_error"
    /\ IF th[t].entry # <<>>
       THEN /\ queues' = QueuePairEntryDestroy(queues, th[t].entry[1])
            /\ ppnSets' = VMCI_FreePPNSet(ppnSets, th[t].entry[1])
       ELSE /\ queues' = FreeQueues(queues, th[t].produceQ, th[t].consumeQ)
            /\ UNCHANGED ppnSets
    /\ last' = Return("VMCIQueuePair_Alloc", th[t].result, <<>>)
    /\ th' = [th EXCEPT ![t] = Idle]
    /\ UNCHANGED <<queuePairList, hibernateFailedList,
                   hibernateFailedListLock, queuePairRID, exited, args>>

(***************************************************************************)
(* VMCIQueuePair_Detach, VMCIQueuePairDetachHelper                         *)
(***************************************************************************)
\* The handles detach is called with: those alloc is called with and those
\* it may have assigned.
DetachHandles ==
    args.handles
    \cup (IF VMCI_INVALID_HANDLE \in args.handles
          THEN {VMCI_MAKE_HANDLE(VMCI_GetContextID, r) :
                   r \in (VMCI_RESERVED_RESOURCE_ID_MAX + 1)..(IdMod - 1)}
          ELSE {VMCI_INVALID_HANDLE})

DetachReturn(t, result, events) ==
    /\ last' = Return("VMCIQueuePair_Detach", result, events)
    /\ th' = [th EXCEPT ![t] = Idle]

\* A variant that drops the reference whatever the result.
DetachSucceeded_Always(result) == TRUE

\* "out:" drops the reference when the detach went through.
DetachSucceeded(result) == result >= VMCI_SUCCESS

\* "out:" of VMCIQueuePairDetachHelper, for the entry at i, up to the
\* release of the lock.
DetachOut(t, i, entry, result, events) ==
    IF DetachSucceeded(result)
    THEN LET after == [entry EXCEPT !.refCount = @ - 1] IN
         IF after.refCount = 0
         THEN /\ queuePairList' =
                    Unlock([queuePairList EXCEPT
                       !.head = QueuePairList_RemoveEntry(@, i)])
              /\ th' = [th EXCEPT ![t] =
                          [Idle EXCEPT !.pc = "detach_destroy",
                                       !.entry = <<Dying(after)>>,
                                       !.result = result]]
              /\ last' = Step("VMCIQueuePairDetachHelper", events)
         ELSE /\ queuePairList' =
                    Unlock([queuePairList EXCEPT !.head[i] = after])
              /\ DetachReturn(t, result, events)
    ELSE /\ queuePairList' =
               Unlock([queuePairList EXCEPT !.head[i] = entry])
         /\ DetachReturn(t, result, events)

\* The result of detaching a non-local entry, from the hypercall's.
DetachResult(entry, r) ==
    IF entry.hibernateFailure /\ r = VMCI_ERROR_NOT_FOUND
    THEN VMCI_SUCCESS
    ELSE r

\* A variant that tells the peer at every detach of a local entry.
DetachNotifies_Always(entry) == entry.refCount > 0

\* A detach of a local entry tells the peer when there is one.
DetachNotifies(entry) == entry.refCount > 1

VMCIQueuePairDetachHelper(t, handle) ==
    LET i == QueuePairList_FindEntry(queuePairList.head, handle)
        entry == queuePairList.head[i]
    IN
    IF i = 0
    THEN /\ DetachReturn(t, VMCI_ERROR_NOT_FOUND, <<>>)
         /\ UNCHANGED queuePairList
    ELSE IF VMCI_QPFLAG_LOCAL \in entry.flags
    THEN IF DetachNotifies(entry)
         THEN \E r \in DispatchResults :
                LET events == <<Event("QP_PEER_DETACH", handle, r)>> IN
                IF r < VMCI_SUCCESS
                THEN /\ DetachReturn(t, r, events)
                     /\ UNCHANGED queuePairList
                ELSE DetachOut(t, i, entry, r, events)
         ELSE DetachOut(t, i, entry, VMCI_SUCCESS, <<>>)
    ELSE \E r \in HyperCallResults :
           LET events == <<Event("QUEUEPAIR_DETACH", handle, r)>>
               result == DetachResult(entry, r)
           IN
           IF entry.hibernateFailure /\ result = VMCI_SUCCESS
           THEN \* VMCIQPUnmarkHibernateFailed is next
                /\ queuePairList' = Lock(queuePairList, t)
                /\ th' = [th EXCEPT ![t] =
                            [Idle EXCEPT !.pc = "detach_unmark",
                                         !.idx = i,
                                         !.result = result]]
                /\ last' = Step("VMCIQueuePairDetachHelper", events)
           ELSE DetachOut(t, i, entry, result, events)

VMCIQueuePair_Detach(t) ==
    /\ CanCall(t, "Detach")
    /\ \E handle \in DetachHandles :
         IF VMCI_HANDLE_INVALID(handle)
         THEN /\ DetachReturn(t, VMCI_ERROR_INVALID_ARGS, <<>>)
              /\ UNCHANGED queuePairList
         ELSE /\ MutexFree
              /\ VMCIQueuePairDetachHelper(t, handle)
    /\ UNCHANGED <<hibernateFailedList, hibernateFailedListLock,
                   queuePairRID, queues, ppnSets, exited, args>>

\* VMCIQPUnmarkHibernateFailed, then "out:".
DetachUnmark(t) ==
    /\ th[t].pc = "detach_unmark"
    /\ hibernateFailedListLock = NoThread
    /\ LET i == th[t].idx
           entry == [queuePairList.head[i] EXCEPT !.hibernateFailure = FALSE]
       IN
       /\ hibernateFailedList' =
             VMCIHandleArray_RemoveEntry(hibernateFailedList, entry.handle)
       /\ DetachOut(t, i, entry, th[t].result, <<>>)
    /\ UNCHANGED <<hibernateFailedListLock, queuePairRID, queues, ppnSets,
                   exited, args>>

\* QueuePairEntryDestroy after QueuePairList_Unlock().
DetachDestroy(t) ==
    /\ th[t].pc = "detach_destroy"
    /\ queues' = QueuePairEntryDestroy(queues, th[t].entry[1])
    /\ ppnSets' = VMCI_FreePPNSet(ppnSets, th[t].entry[1])
    /\ DetachReturn(t, th[t].result, <<>>)
    /\ UNCHANGED <<queuePairList, hibernateFailedList,
                   hibernateFailedListLock, queuePairRID, exited, args>>

(***************************************************************************)
(* VMCIQueuePair_Convert, VMCIQPMarkHibernateFailed                        *)
(***************************************************************************)
NonLocal(head) ==
    {i \in 1..Len(head) : VMCI_QPFLAG_LOCAL \notin head[i].flags}

\* Entry: the list lock when converting to local, the lock of
\* hibernateFailedList when coming back.
VMCIQueuePair_Convert(t) ==
    /\ CanCall(t, "Convert")
    /\ \/ \* toLocal
          /\ MutexFree
          /\ Len(hibernateFailedList)
                + Cardinality(NonLocal(queuePairList.head)) <= MaxFailed
          /\ queuePairList' = Lock(queuePairList, t)
          /\ th' = [th EXCEPT ![t] = [Idle EXCEPT !.pc = "convert_scan",
                                                  !.idx = 1]]
          /\ UNCHANGED hibernateFailedListLock
       \/ \* !toLocal
          /\ hibernateFailedListLock = NoThread
          /\ hibernateFailedListLock' = t
          /\ \E deviceReset \in BOOLEAN :
               th' = [th EXCEPT ![t] =
                        [Idle EXCEPT !.pc = "wake_drain",
                                     !.deviceReset = deviceReset]]
          /\ UNCHANGED queuePairList
    /\ last' = Step("VMCIQueuePair_Convert", <<>>)
    /\ UNCHANGED <<hibernateFailedList, queuePairRID, queues, ppnSets,
                   exited, args>>

\* A variant that goes on to VMCIQPMarkHibernateFailed with the queue mutex.
ConvertFailed_KeepMutex(t, qs, events) ==
    /\ queues' = qs
    /\ th' = [th EXCEPT ![t].pc = "convert_mark"]
    /\ last' = Step("VMCIQueuePair_Convert", events)
    /\ UNCHANGED queuePairList

\* The entry could not be converted: VMCI_ReleaseQueueMutex, and
\* VMCIQPMarkHibernateFailed is next.
ConvertFailed(t, qs, events) ==
    /\ queues' = qs
    /\ th' = [th EXCEPT ![t].pc = "convert_mark", ![t].queueMutex = 0]
    /\ last' = Step("VMCIQueuePair_Convert", events)
    /\ UNCHANGED queuePairList

\* The queues after a failed produce snapshot.
RevertConsume(qs, entry) ==
    VMCI_RevertToNonLocalQueue(qs, entry.consumeQ)

\* A variant that reverts the consume queue only.
RevertBoth_ConsumeOnly(qs, entry) ==
    VMCI_RevertToNonLocalQueue(qs, entry.consumeQ)

\* The queues after a failed detach hypercall.
RevertBoth(qs, entry) ==
    VMCI_RevertToNonLocalQueue(
        VMCI_RevertToNonLocalQueue(qs, entry.consumeQ), entry.produceQ)

\* The body of one iteration of LIST_SCAN: a local entry is passed over;
\* for another the queues are copied and the detach hypercall is made, up
\* to VMCI_ReleaseQueueMutex and, on success, the peer detach event.
ConvertBody(t) ==
    LET i == th[t].idx
        entry == queuePairList.head[i]
        cons == VMCI_ConvertToLocalQueue(queues, entry.consumeQ)
        both == VMCI_ConvertToLocalQueue(cons, entry.produceQ)
    IN
    IF VMCI_QPFLAG_LOCAL \in entry.flags
    THEN /\ th' = [th EXCEPT ![t].idx = i + 1]
         /\ last' = Step("VMCIQueuePair_Convert", <<>>)
         /\ UNCHANGED <<queuePairList, queues>>
    ELSE \/ \* the consume queue cannot be copied
            ConvertFailed(t, queues, <<>>)
         \/ \* the produce queue cannot be copied
            ConvertFailed(t, RevertConsume(cons, entry), <<>>)
         \/ \E r \in HyperCallResults :
              LET detach == Event("QUEUEPAIR_DETACH", entry.handle, r) IN
              IF r < VMCI_SUCCESS
              THEN ConvertFailed(t, RevertBoth(both, entry), <<detach>>)
              ELSE /\ queuePairList' =
                         [queuePairList EXCEPT !.head[i].flags =
                             @ \cup {VMCI_QPFLAG_LOCAL}]
                   /\ queues' = both
                   /\ th' = [th EXCEPT ![t].pc = "convert_scan",
                                       ![t].idx = i + 1,
                                       ![t].queueMutex = 0]
                   /\ last' = Step("VMCIQueuePair_Convert",
                                   <<detach,
                                     Event("QP_PEER_DETACH", entry.handle,
                                           VMCI_SUCCESS)>>)

\* One iteration of LIST_SCAN, with the queue mutex of the entry held from
\* VMCI_AcquireQueueMutex to VMCI_ReleaseQueueMutex.
ConvertEntry(t) ==
    /\ th[t].pc = "convert_scan"
    /\ th[t].idx <= Len(queuePairList.head)
    /\ ConvertBody(t)
    /\ UNCHANGED <<hibernateFailedList, hibernateFailedListLock,
                   queuePairRID, ppnSets, exited, args>>

\* A variant that leaves the scan after a failure ("break").
ConvertMark_Break(t) ==
    /\ th[t].pc = "convert_mark"
    /\ hibernateFailedListLock = NoThread
    /\ LET i == th[t].idx
           entry == queuePairList.head[i]
       IN
       /\ queuePairList' =
             [queuePairList EXCEPT !.head[i].hibernateFailure = TRUE,
                                   !.head[i].marked = TRUE]
       /\ hibernateFailedList' =
             VMCIHandleArray_AppendEntry(hibernateFailedList, entry.handle)
       /\ th' = [th EXCEPT ![t].pc = "convert_scan",
                           ![t].idx = Len(queuePairList.head) + 1]
    /\ last' = Step("VMCIQPMarkHibernateFailed", <<>>)
    /\ UNCHANGED <<hibernateFailedListLock, queuePairRID, queues, ppnSets,
                   exited, args>>

\* VMCIQPMarkHibernateFailed, then "continue".
ConvertMark(t) ==
    /\ th[t].pc = "convert_mark"
    /\ hibernateFailedListLock = NoThread
    /\ LET i == th[t].idx
           entry == queuePairList.head[i]
       IN
       /\ queuePairList' =
             [queuePairList EXCEPT !.head[i].hibernateFailure = TRUE,
                                   !.head[i].marked = TRUE]
       /\ hibernateFailedList' =
             VMCIHandleArray_AppendEntry(hibernateFailedList, entry.handle)
       /\ th' = [th EXCEPT ![t].pc = "convert_scan", ![t].idx = i + 1]
    /\ last' = Step("VMCIQPMarkHibernateFailed", <<>>)
    /\ UNCHANGED <<hibernateFailedListLock, queuePairRID, queues, ppnSets,
                   exited, args>>

\* After the scan: the hibernate flag, then QueuePairList_Unlock().
ConvertDone(t) ==
    /\ th[t].pc = "convert_scan"
    /\ th[t].idx > Len(queuePairList.head)
    /\ queuePairList' = Unlock([queuePairList EXCEPT !.hibernate = 1])
    /\ th' = [th EXCEPT ![t] = Idle]
    /\ last' = Return("VMCIQueuePair_Convert", VMCI_SUCCESS, <<>>)
    /\ UNCHANGED <<hibernateFailedList, hibernateFailedListLock,
                   queuePairRID, queues, ppnSets, exited, args>>

\* The events of the while loop over hibernateFailedList: the tail first.
RECURSIVE DrainEvents(_, _)
DrainEvents(array, deviceReset) ==
    IF Len(array) = 0 THEN <<>>
    ELSE (IF deviceReset
          THEN <<Event("QP_PEER_DETACH", array[Len(array)], VMCI_SUCCESS)>>
          ELSE <<>>)
         \o DrainEvents(SubSeq(array, 1, Len(array) - 1), deviceReset)

\* The list the while loop leaves behind.
RECURSIVE DrainList(_)
DrainList(array) ==
    IF Len(array) > 0
    THEN DrainList(SubSeq(array, 1, Len(array) - 1))
    ELSE array

\* The while loop and VMCI_ReleaseLock_BH.
WakeDrain(t) ==
    /\ th[t].pc = "wake_drain"
    /\ hibernateFailedList' = DrainList(hibernateFailedList)
    /\ hibernateFailedListLock' = NoThread
    /\ th' = [th EXCEPT ![t].pc = "wake_clear"]
    /\ last' = Step("VMCIQueuePair_Convert",
                    DrainEvents(hibernateFailedList, th[t].deviceReset))
    /\ UNCHANGED <<queuePairList, queuePairRID, queues, ppnSets, exited,
                   args>>

\* Atomic_Write(&queuePairList.hibernate, 0)
WakeClear(t) ==
    /\ th[t].pc = "wake_clear"
    /\ queuePairList' = [queuePairList EXCEPT !.hibernate = 0]
    /\ th' = [th EXCEPT ![t] = Idle]
    /\ last' = Return("VMCIQueuePair_Convert", VMCI_SUCCESS, <<>>)
    /\ UNCHANGED <<hibernateFailedList, hibernateFailedListLock,
                   queuePairRID, queues, ppnSets, exited, args>>

(***************************************************************************)
(* VMCIQueuePair_Exit: called at module unload, when no call is under way. *)
(***************************************************************************)
\* A variant that sends the detach datagram for the local entries too.
RECURSIVE ExitEvents_All(_)
ExitEvents_All(head) ==
    IF head = <<>> THEN <<>>
    ELSE <<Event("QUEUEPAIR_DETACH", Head(head).handle, VMCI_SUCCESS)>>
         \o ExitEvents_All(Tail(head))

\* The detach datagrams of the exit: none for a local entry.
RECURSIVE ExitEvents(_)
ExitEvents(head) ==
    IF head = <<>> THEN <<>>
    ELSE (IF VMCI_QPFLAG_LOCAL \notin Head(head).flags
          THEN <<Event("QUEUEPAIR_DETACH", Head(head).handle, VMCI_SUCCESS)>>
          ELSE <<>>)
         \o ExitEvents(Tail(head))

\* A variant that destroys the entry at the head of the list only.
ExitQueues_HeadOnly(qs, head) ==
    IF head = <<>> THEN qs ELSE QueuePairEntryDestroy(qs, Head(head))

\* The allocator after QueuePairEntryDestroy of every entry.
RECURSIVE ExitQueues(_, _)
ExitQueues(qs, head) ==
    IF head = <<>> THEN qs
    ELSE ExitQueues(QueuePairEntryDestroy(qs, Head(head)), Tail(head))

RECURSIVE ExitPPNSets(_, _)
ExitPPNSets(n, head) ==
    IF head = <<>> THEN n
    ELSE ExitPPNSets(VMCI_FreePPNSet(n, Head(head)), Tail(head))

VMCIQueuePair_Exit(t) ==
    /\ CanCall(t, "Exit")
    /\ \A u \in Threads : th[u].pc = "idle"
    /\ MutexFree
    /\ queuePairList' = [queuePairList EXCEPT !.head = <<>>, !.hibernate = 0]
    /\ queues' = ExitQueues(queues, queuePairList.head)
    /\ ppnSets' = ExitPPNSets(ppnSets, queuePairList.head)
    /\ hibernateFailedList' = <<>>
    /\ exited' = TRUE
    /\ last' = Return("VMCIQueuePair_Exit", VMCI_SUCCESS,
                      ExitEvents(queuePairList.head))
    /\ UNCHANGED <<hibernateFailedListLock, queuePairRID, th, args>>

Next ==
    \/ \E t \in Threads : VMCIQueuePair_Alloc(t)
    \/ \E t \in Threads : AllocOut(t)
    \/ \E t \in Threads : AllocError(t)
    \/ \E t \in Threads : VMCIQueuePair_Detach(t)
    \/ \E t \in Threads : DetachUnmark(t)
    \/ \E t \in Threads : DetachDestroy(t)
    \/ \E t \in Threads : VMCIQueuePair_Convert(t)
    \/ \E t \in Threads : ConvertEntry(t)
    \/ \E t \in Threads : ConvertMark(t)
    \/ \E t \in Threads : ConvertDone(t)
    \/ \E t \in Threads : WakeDrain(t)
    \/ \E t \in Threads : WakeClear(t)
    \/ \E t \in Threads : VMCIQueuePair_Exit(t)

Spec == Init /\ [][Next]_vars

\* The thread that converts the list runs on: the scan holds the list lock
\* and waits for nothing but the spin lock of hibernateFailedList.
SpecSweepFair ==
    Spec /\ \A t \in Threads :
               WF_vars(ConvertEntry(t) \/ ConvertMark(t) \/ ConvertDone(t))

SpecAllArgs == InitAllArgs /\ [][Next]_vars

(***************************************************************************)
(* QueuePairEntryCreate on its own, for a caller that passes no handle,    *)
(* from every list of queue pairs and every value of its counter.          *)
(***************************************************************************)
\* The resource ids above the reserved ones.
NonReservedIDs == (VMCI_RESERVED_RESOURCE_ID_MAX + 1)..(IdMod - 1)

\* The handles of the entries of the lists: of this context and of another.
GenHandles ==
    {VMCI_MAKE_HANDLE(c, r) :
        c \in {VMCI_GetContextID, OtherContextID}, r \in NonReservedIDs}

\* The k-th entry of a list: a local queue pair with one reference.
GenEntry(handle, k) ==
    [NewEntry(handle, VMCI_INVALID_ID, {VMCI_QPFLAG_LOCAL}, 200, 200,
              2 * k - 1, 2 * k, FALSE)
        EXCEPT !.ppnSet = TRUE, !.refCount = 1]

\* A list with the handles of S, those created first at the head.
RECURSIVE GenList(_)
GenList(S) ==
    IF S = {} THEN <<>>
    ELSE LET h == CHOOSE x \in S : \A y \in S :
                     x.context * IdMod + x.resource
                        >= y.context * IdMod + y.resource
         IN  Append(GenList(S \ {h}), GenEntry(h, Cardinality(S)))

InitGenerate ==
    \E S \in SUBSET GenHandles, rid \in NonReservedIDs :
        /\ Cardinality(S) <= Cardinality(NonReservedIDs)
        /\ args = AutoArgs
        /\ queuePairList =
              [head |-> GenList(S), hibernate |-> 0, mutex |-> NoThread]
        /\ hibernateFailedList = <<>>
        /\ hibernateFailedListLock = NoThread
        /\ queuePairRID = rid
        /\ queues = [q \in 1..(2 * Cardinality(NonReservedIDs)) |->
                        IF q <= 2 * Cardinality(S)
                        THEN NewQueue
                        ELSE [state |-> "free", snapshot |-> FALSE]]
        /\ ppnSets = Cardinality(S)
        /\ th = [t \in Threads |-> Idle]
        /\ exited = FALSE
        /\ last = Step("VMCIQueuePair_Init", <<>>)

\* QueuePairEntryCreate(VMCI_INVALID_HANDLE, ...): the handle of the new
\* entry, or NULL (VMCI_ERROR_NO_MEM from its caller) when no id is free.
QueuePairEntryCreate ==
    LET gen == GenerateRID(queuePairList.head, queuePairRID, queuePairRID)
    IN  /\ queuePairRID' = gen.rid
        /\ last' = [Return("QueuePairEntryCreate",
                           IF gen.found THEN VMCI_ERROR_NO_MEM
                           ELSE VMCI_SUCCESS, <<>>)
                      EXCEPT !.handle = IF gen.found THEN VMCI_INVALID_HANDLE
                                        ELSE gen.handle]
        /\ UNCHANGED <<queuePairList, hibernateFailedList,
                       hibernateFailedListLock, queues, ppnSets, th, exited,
                       args>>

NextGenerate == QueuePairEntryCreate

SpecGenerate == InitGenerate /\ [][NextGenerate]_vars

SpecAutoArgs == InitAutoArgs /\ [][Next]_vars

SpecAttachArgs == InitAttachArgs /\ [][Next]_vars

\* One thread creating and attaching with handles of this context and of
\* another, every kind of peer, and the ATTACH_ONLY flag; the allocator has
\* the queues of one queue pair.
LocalArgs ==
    [ calls   |-> <<{"Alloc", "Detach", "Convert", "Exit"}, {}>>,
      handles |-> { VMCI_MAKE_HANDLE(c, FirstRID) :
                       c \in {VMCI_GetContextID, OtherContextID} },
      peers   |-> {VMCI_INVALID_ID, VMCI_GetContextID, OtherContextID},
      flags   |-> {{}, {VMCI_QPFLAG_LOCAL},
                   {VMCI_QPFLAG_LOCAL, VMCI_QPFLAG_ATTACH_ONLY}},
      sizes   |-> {<<200, 200>>},
      nqueues |-> 2 ]

InitLocalArgs == InitWith(LocalArgs)

SpecLocalArgs == InitLocalArgs /\ [][Next]_vars

(***************************************************************************)
(* The same calls with the queue mutex of VMCIQueuePair_Convert taken and  *)
(* released in steps of their own, and with both threads free to enter or  *)
(* leave hibernation.                                                      *)
(***************************************************************************)
\* Two threads that both create, attach, detach and convert, with the
\* queues of two pairs: a third allocation fails while both are held.
LockArgs ==
    [ calls   |-> <<{"Alloc", "Detach", "Convert", "Exit"},
                    {"Alloc", "Detach", "Convert"}>>,
      handles |-> {VMCI_MAKE_HANDLE(VMCI_GetContextID, FirstRID),
                   VMCI_MAKE_HANDLE(VMCI_GetContextID, FirstRID + 1)},
      peers   |-> {VMCI_INVALID_ID},
      flags   |-> {{}},
      sizes   |-> {<<200, 200>>},
      nqueues |-> 4 ]

InitLocks == InitWith(LockArgs)

\* No thread holds the mutex of the queue.
QueueMutexFree(q) == \A u \in Threads : th[u].queueMutex # q

\* LIST_SCAN passes over a local entry.
ConvertSkip(t) ==
    /\ th[t].pc = "convert_scan"
    /\ th[t].idx <= Len(queuePairList.head)
    /\ VMCI_QPFLAG_LOCAL \in queuePairList.head[th[t].idx].flags
    /\ ConvertBody(t)
    /\ UNCHANGED <<hibernateFailedList, hibernateFailedListLock,
                   queuePairRID, ppnSets, exited, args>>

\* VMCI_AcquireQueueMutex(prodQ) for an entry that is not local.
ConvertAcquire(t) ==
    /\ th[t].pc = "convert_scan"
    /\ th[t].idx <= Len(queuePairList.head)
    /\ LET entry == queuePairList.head[th[t].idx] IN
       /\ VMCI_QPFLAG_LOCAL \notin entry.flags
       /\ QueueMutexFree(entry.produceQ)
       /\ th' = [th EXCEPT ![t].pc = "convert_locked",
                           ![t].queueMutex = entry.produceQ]
    /\ last' = Step("VMCIQueuePair_Convert", <<>>)
    /\ UNCHANGED <<queuePairList, hibernateFailedList,
                   hibernateFailedListLock, queuePairRID, queues, ppnSets,
                   exited, args>>

\* From VMCI_ConvertToLocalQueue to VMCI_ReleaseQueueMutex.
ConvertLocked(t) ==
    /\ th[t].pc = "convert_locked"
    /\ ConvertBody(t)
    /\ UNCHANGED <<hibernateFailedList, hibernateFailedListLock,
                   queuePairRID, ppnSets, exited, args>>

NextLocks ==
    \/ \E t \in Threads : VMCIQueuePair_Alloc(t)
    \/ \E t \in Threads : AllocOut(t)
    \/ \E t \in Threads : AllocError(t)
    \/ \E t \in Threads : VMCIQueuePair_Detach(t)
    \/ \E t \in Threads : DetachUnmark(t)
    \/ \E t \in Threads : DetachDestroy(t)
    \/ \E t \in Threads : VMCIQueuePair_Convert(t)
    \/ \E t \in Threads : ConvertSkip(t)
    \/ \E t \in Threads : ConvertAcquire(t)
    \/ \E t \in Threads : ConvertLocked(t)
    \/ \E t \in Threads : ConvertMark(t)
    \/ \E t \in Threads : ConvertDone(t)
    \/ \E t \in Threads : WakeDrain(t)
    \/ \E t \in Threads : WakeClear(t)
    \/ \E t \in Threads : VMCIQueuePair_Exit(t)

SpecLocks == InitLocks /\ [][NextLocks]_vars

(***************************************************************************)
(* Properties.                                                             *)
(***************************************************************************)
head == queuePairList.head

\* The entry a thread holds outside the list, if it holds one.
HeldEntry(t) == th[t].entry

\* C1: whatever alloc (with generated or explicit handles), detach,
\* convert and exit calls were made, no two entries of the queue pair list
\* have the same handle.  The list includes the entry an alloc has just
\* inserted, so a handle QueuePairEntryCreate generates is never that of an
\* entry in the list, also when that entry was created with an explicit
\* handle of the range the ids are generated from.
C1_HandlesUnique ==
    \A i, j \in 1..Len(head) :
        VMCI_HANDLE_EQUAL(head[i].handle, head[j].handle) => i = j

\* An alloc without a handle found the id of its counter taken by the entry
\* with the explicit handle, and inserted an entry with another id.
C1_GeneratedPastLiveHandle ==
    \E t \in Threads :
        /\ th[t].pc = "alloc_out"
        /\ th[t].oldRID # <<>>
        /\ th[t].oldRID[1] = FirstRID + 1
        /\ head[th[t].idx].refCount = 0
        /\ head[th[t].idx].handle.resource # th[t].oldRID[1]
        /\ \E j \in 1..Len(head) :
              VMCI_HANDLE_EQUAL(head[j].handle,
                                VMCI_MAKE_HANDLE(VMCI_GetContextID,
                                                 th[t].oldRID[1]))

\* The reference counts of all entries, in the list or held by a thread,
\* are between 0 and 2.
RefCountInRange ==
    /\ \A i \in 1..Len(head) : head[i].refCount \in 0..2
    /\ \A t \in Threads :
          HeldEntry(t) # <<>> => HeldEntry(t)[1].refCount \in 0..2

\* A call of alloc with valid arguments, the device not shutting down, on
\* the handle of a local entry that has two references, fails with
\* VMCI_ERROR_UNAVAILABLE and changes nothing.
ThirdAttachRejected ==
    \A t \in Threads : \A i \in 1..Len(head) :
        ( /\ CanCall(t, "Alloc")
          /\ MutexFree
          /\ VMCI_QPFLAG_LOCAL \in head[i].flags
          /\ head[i].refCount = 2 )
        => \A peer \in args.peers, flags \in args.flags, size \in args.sizes :
              ( /\ ~AllocInvalidArgs(flags, size[1], size[2])
                /\ VMCIQueuePairAllocHelper(t, FALSE, head[i].handle, peer,
                                            flags, size[1], size[2]) )
              => /\ last'.returned
                 /\ last'.result = VMCI_ERROR_UNAVAILABLE
                 /\ last'.events = <<>>
                 /\ queuePairList' = queuePairList

\* C2: in every state of every interleaving of alloc, local attach, detach,
\* convert and exit, every entry has 0 <= refCount <= 2: no detach takes a
\* reference count below 0, and a third attach to a local entry with two
\* references is rejected with VMCI_ERROR_UNAVAILABLE.
C2_RefCountBounded ==
    RefCountInRange /\ [][RefCountInRange' /\ ThirdAttachRejected]_vars

\* A third attach has just been rejected: the guest is not hibernating, so
\* the result does not come from the hibernation check.
C2_ThirdAttachSeen ==
    /\ last.op = "VMCIQueuePair_Alloc"
    /\ last.returned
    /\ last.result = VMCI_ERROR_UNAVAILABLE
    /\ queuePairList.hibernate = 0
    /\ \E i \in 1..Len(head) :
          VMCI_QPFLAG_LOCAL \in head[i].flags /\ head[i].refCount = 2

\* C3: when the lock of the list is free, an entry is in the list iff its
\* refCount is above 0: every entry of the list has refCount >= 1, and
\* every entry with refCount 0, never inserted or just removed, is held
\* by the thread that is about to destroy it and is not in the list.
C3_MemberIffReferenced ==
    MutexFree =>
        /\ \A i \in 1..Len(head) : head[i].refCount >= 1
        /\ \A t \in Threads :
              HeldEntry(t) # <<>> =>
                 /\ HeldEntry(t)[1].refCount = 0
                 /\ \A i \in 1..Len(head) :
                       head[i].produceQ # HeldEntry(t)[1].produceQ

\* The lock is free, the list has an entry, and a thread holds the entry
\* it has just removed.
C3_RemovedEntryHeld ==
    /\ MutexFree
    /\ Len(head) >= 1
    /\ \E t \in Threads :
          th[t].pc = "detach_destroy" /\ HeldEntry(t) # <<>>

\* The queues and PPN sets a thread holds for the entry, or the queues,
\* that "error:" is about to free.
HeldQueues(t) ==
    IF HeldEntry(t) # <<>>
    THEN {HeldEntry(t)[1].produceQ, HeldEntry(t)[1].consumeQ}
    ELSE {th[t].produceQ, th[t].consumeQ} \ {0}

HeldPPNSets(t) ==
    IF HeldEntry(t) # <<>> /\ HeldEntry(t)[1].ppnSet THEN 1 ELSE 0

\* An alloc fails before it has allocated anything (argument check, device
\* shutdown, hibernation, a found entry, the produce queue): nothing changes.
FailsAtOnce ==
    ( /\ last'.op = "VMCIQueuePair_Alloc"
      /\ last'.returned
      /\ last'.result < VMCI_SUCCESS
      /\ th' = th )
    => /\ queuePairList' = queuePairList
       /\ queues' = queues
       /\ ppnSets' = ppnSets

\* A create fails after it has allocated something: the list is as before,
\* and what differs in the allocator is what the thread holds to free.
FailsHolding(t) ==
    (th[t].pc = "idle" /\ th'[t].pc = "alloc_error")
    => /\ queuePairList' = queuePairList
       /\ HeldQueues(t)' # {}
       /\ \A q \in DOMAIN queues :
             IF q \in HeldQueues(t)'
             THEN queues[q].state = "free" /\ queues'[q].state = "allocated"
             ELSE queues'[q] = queues[q]
       /\ ppnSets' = ppnSets + HeldPPNSets(t)'

\* "error:" returns the failure with everything the thread held freed, once.
Unwinds(t) ==
    (th[t].pc = "alloc_error" /\ th'[t].pc = "idle")
    => /\ last'.op = "VMCIQueuePair_Alloc"
       /\ last'.returned
       /\ last'.result < VMCI_SUCCESS
       /\ queuePairList' = queuePairList
       /\ \A q \in DOMAIN queues :
             IF q \in HeldQueues(t)
             THEN queues[q].state = "allocated" /\ queues'[q].state = "free"
             ELSE queues'[q] = queues[q]
       /\ ppnSets' = ppnSets - HeldPPNSets(t)

\* C4: a create that fails at any step (device shutdown, hibernation,
\* allocation of the produce or consume queue, construction of the entry,
\* allocation of the PPN set, validation of the flags and peer of a local
\* queue pair, alloc hypercall) leaves the list with exactly the entries it
\* had, and by the time the call returns every queue and PPN set it
\* allocated has been freed exactly once.
C4_FailedCreateUnwinds ==
    [][ /\ FailsAtOnce
        /\ \A t \in Threads : FailsHolding(t) /\ Unwinds(t) ]_vars

\* A local create was refused for its peer or context after its queues and
\* PPN set were allocated, and everything is free again.
C4_RefusedCreateUnwound ==
    /\ last.op = "VMCIQueuePair_Alloc"
    /\ last.returned
    /\ last.result = VMCI_ERROR_NO_ACCESS
    /\ head = <<>>
    /\ ppnSets = 0
    /\ \A q \in DOMAIN queues : queues[q].state = "free"

\* An alloc with valid arguments, the device not shutting down, on the
\* handle of a local entry with one reference, whose sizes or flags do not
\* mirror the entry's.
MismatchedAttach(t, i, peer, flags, size) ==
    /\ CanCall(t, "Alloc")
    /\ MutexFree
    /\ VMCI_QPFLAG_LOCAL \in head[i].flags
    /\ head[i].refCount = 1
    /\ \/ size[1] # head[i].consumeSize
       \/ size[2] # head[i].produceSize
       \/ flags \ {VMCI_QPFLAG_ATTACH_ONLY} # head[i].flags
    /\ ~AllocInvalidArgs(flags, size[1], size[2])
    /\ VMCIQueuePairAllocHelper(t, FALSE, head[i].handle, peer, flags,
                                size[1], size[2])

\* The call fails without an attach event and without a change to the list.
AttachRefused ==
    /\ last'.returned
    /\ last'.result < VMCI_SUCCESS
    /\ last'.events = <<>>
    /\ queuePairList' = queuePairList

\* C5 as stated: an alloc on the handle of a local entry with refCount 1
\* whose produceSize differs from the entry's consumeSize, or whose
\* consumeSize differs from the entry's produceSize, or whose flags without
\* ATTACH_ONLY differ from the entry's, always fails with
\* VMCI_ERROR_QUEUEPAIR_MISMATCH, sends no attach event and leaves the
\* entry's refCount as it was.
C5_MismatchAlwaysReported ==
    [][ \A t \in Threads : \A i \in 1..Len(head) :
        \A peer \in args.peers, flags \in args.flags, size \in args.sizes :
            MismatchedAttach(t, i, peer, flags, size)
            => /\ AttachRefused
               /\ last'.result = VMCI_ERROR_QUEUEPAIR_MISMATCH ]_vars

\* C5, amended: such an alloc always fails, sends no attach event and
\* leaves the entry's refCount as it was; the result is
\* VMCI_ERROR_QUEUEPAIR_MISMATCH, except that while the guest hibernates a
\* call without the LOCAL flag gets VMCI_ERROR_UNAVAILABLE from the
\* hibernation check, which comes first.
C5_MismatchRefused ==
    [][ \A t \in Threads : \A i \in 1..Len(head) :
        \A peer \in args.peers, flags \in args.flags, size \in args.sizes :
            MismatchedAttach(t, i, peer, flags, size)
            => /\ AttachRefused
               /\ last'.result =
                     IF /\ queuePairList.hibernate = 1
                        /\ VMCI_QPFLAG_LOCAL \notin flags
                     THEN VMCI_ERROR_UNAVAILABLE
                     ELSE VMCI_ERROR_QUEUEPAIR_MISMATCH ]_vars

\* A mismatched attach to a local entry has just been refused.
C5_MismatchSeen ==
    /\ last.op = "VMCIQueuePair_Alloc"
    /\ last.returned
    /\ last.result = VMCI_ERROR_QUEUEPAIR_MISMATCH
    /\ \E i \in 1..Len(head) :
          VMCI_QPFLAG_LOCAL \in head[i].flags /\ head[i].refCount = 1

\* The local attach case goes to "out:" with the entry it found.
AttachBegins(t) ==
    ( /\ th[t].pc = "idle"
      /\ th'[t].pc = "alloc_out"
      /\ th'[t].idx <= Len(head) )
    => /\ head' = head
       /\ queues' = queues
       /\ ppnSets' = ppnSets
       /\ VMCI_QPFLAG_LOCAL \in head[th'[t].idx].flags
       /\ head[th'[t].idx].refCount = 1

\* "out:" for an entry that was in the list before the call.
AttachReturns(t) ==
    ( /\ th[t].pc = "alloc_out"
      /\ head[th[t].idx].refCount >= 1
      /\ th'[t].pc = "idle" )
    => LET entry == head[th[t].idx] IN
       /\ last'.returned
       /\ last'.result = VMCI_SUCCESS
       /\ last'.produceQ = entry.consumeQ
       /\ last'.consumeQ = entry.produceQ
       /\ VMCI_HANDLE_EQUAL(last'.handle, entry.handle)
       /\ entry.refCount = 1
       /\ head' = [head EXCEPT ![th[t].idx].refCount = 2]
       /\ queues' = queues
       /\ ppnSets' = ppnSets

\* C6: a successful local attach allocates no queue, no PPN set and no
\* entry; it returns the entry's consume queue as its produce queue, the
\* entry's produce queue as its consume queue, and the entry's handle; and
\* it takes refCount from 1 to 2.
C6_LocalAttachSwaps ==
    [][ \A t \in Threads : AttachBegins(t) /\ AttachReturns(t) ]_vars

\* A local attach has just returned the two queues of the entry, swapped.
C6_AttachSeen ==
    /\ last.op = "VMCIQueuePair_Alloc"
    /\ last.returned
    /\ last.result = VMCI_SUCCESS
    /\ \E i \in 1..Len(head) :
          /\ VMCI_HANDLE_EQUAL(head[i].handle, last.handle)
          /\ head[i].refCount = 2
          /\ head[i].produceSize # head[i].consumeSize
          /\ last.produceQ = head[i].consumeQ
          /\ last.produceQ # last.consumeQ

\* A detach takes the last reference: the entry leaves the list and the
\* thread holds it for QueuePairEntryDestroy.
LastDetachRemoves(t) ==
    (th[t].pc \in {"idle", "detach_unmark"} /\ th'[t].pc = "detach_destroy")
    => \E i \in 1..Len(head) :
          /\ head[i].refCount = 1
          /\ head' = QueuePairList_RemoveEntry(head, i)
          /\ QueuePairList_FindEntry(head', head[i].handle) = 0
          /\ HeldEntry(t)' = <<Dying([head[i] EXCEPT !.refCount = 0])>>
          /\ queues' = queues
          /\ ppnSets' = ppnSets

\* QueuePairEntryDestroy frees the PPN set and the two queues of the entry,
\* each of them allocated until then, and nothing else.
LastDetachReleases(t) ==
    (th[t].pc = "detach_destroy" /\ th'[t].pc = "idle")
    => /\ last'.returned
       /\ last'.result >= VMCI_SUCCESS
       /\ HeldEntry(t)[1].ppnSet
       /\ ppnSets' = ppnSets - 1
       /\ \A q \in DOMAIN queues :
             IF q \in HeldQueues(t)
             THEN queues[q].state = "allocated" /\ queues'[q].state = "free"
             ELSE queues'[q] = queues[q]
       /\ head' = head

\* A detach of a handle that is not in the list returns
\* VMCI_ERROR_NOT_FOUND and frees nothing.
DetachOfAbsent ==
    \A t \in Threads : \A handle \in DetachHandles :
        ( /\ CanCall(t, "Detach")
          /\ MutexFree
          /\ ~VMCI_HANDLE_INVALID(handle)
          /\ QueuePairList_FindEntry(head, handle) = 0
          /\ VMCIQueuePairDetachHelper(t, handle) )
        => /\ last'.returned
           /\ last'.result = VMCI_ERROR_NOT_FOUND
           /\ th'[t].pc = "idle"
           /\ queuePairList' = queuePairList
           /\ queues' = queues
           /\ ppnSets' = ppnSets

\* C7: a successful detach of the last reference (refCount 1 to 0) removes
\* the entry from the list and frees its PPN set and its two queues exactly
\* once; a later detach of the handle, which is then not in the list,
\* returns VMCI_ERROR_NOT_FOUND and frees nothing.
C7_LastDetachReleasesOnce ==
    [][ /\ DetachOfAbsent
        /\ \A t \in Threads :
              LastDetachRemoves(t) /\ LastDetachReleases(t) ]_vars

\* The only entry of the list has just been detached and destroyed.
C7_LastDetachSeen ==
    /\ last.op = "VMCIQueuePair_Detach"
    /\ last.returned
    /\ last.result = VMCI_SUCCESS
    /\ ~exited
    /\ head = <<>>
    /\ ppnSets = 0
    /\ \A q \in DOMAIN queues : queues[q].state = "free"
    /\ \A t \in Threads : th[t].pc = "idle"

\* C8: a detach that fails, because the handle is not in the list, because
\* the detach event to the local peer could not be delivered or because
\* the detach hypercall failed, leaves the list with the same entries, each
\* with the refCount, flags and hibernateFailure it had, and leaves
\* hibernateFailedList as it was.
C8_FailedDetachChangesNothing ==
    [][ ( /\ last'.op = "VMCIQueuePair_Detach"
          /\ last'.returned
          /\ last'.result < VMCI_SUCCESS )
        => /\ head' = head
           /\ hibernateFailedList' = hibernateFailedList
           /\ queues' = queues
           /\ ppnSets' = ppnSets ]_vars

\* The detach hypercall has just failed for an entry that is marked and in
\* hibernateFailedList.
C8_FailedHyperCallSeen ==
    /\ last.op = "VMCIQueuePair_Detach"
    /\ last.returned
    /\ last.result = VMCI_ERROR_INVALID_ARGS
    /\ last.events # <<>>
    /\ \E i \in 1..Len(head) :
          /\ VMCI_HANDLE_EQUAL(head[i].handle, last.events[1].handle)
          /\ head[i].hibernateFailure
          /\ \E k \in 1..Len(hibernateFailedList) :
                VMCI_HANDLE_EQUAL(hibernateFailedList[k], head[i].handle)

\* The conversion of an entry fails at the consume queue, at the produce
\* queue or at the detach hypercall: the queues and the list are as before.
ConversionFails(t) ==
    (th[t].pc = "convert_scan" /\ th'[t].pc = "convert_mark")
    => /\ VMCI_QPFLAG_LOCAL \notin head[th[t].idx].flags
       /\ queues' = queues
       /\ queuePairList' = queuePairList
       /\ hibernateFailedList' = hibernateFailedList

\* VMCIQPMarkHibernateFailed marks the entry and records its handle.
ConversionMarks(t) ==
    (th[t].pc = "convert_mark" /\ th'[t].pc = "convert_scan")
    => LET i == th[t].idx IN
       /\ head' = [head EXCEPT ![i].hibernateFailure = TRUE,
                               ![i].marked = TRUE]
       /\ VMCI_QPFLAG_LOCAL \notin head'[i].flags
       /\ ~queues'[head'[i].produceQ].snapshot
       /\ ~queues'[head'[i].consumeQ].snapshot
       /\ hibernateFailedList' = Append(hibernateFailedList, head[i].handle)
       /\ queues' = queues

\* C9: the conversion to local is all or nothing for each entry: when the
\* copy of the consume queue, the copy of the produce queue or the detach
\* hypercall fails, the entry's produce and consume queues are what they
\* were before the attempt (every copy made has been reverted), its LOCAL
\* flag is still clear, and all that changes is that hibernateFailure is
\* set and the handle is recorded in hibernateFailedList.
C9_FailedConversionReverts ==
    [][ \A t \in Threads : ConversionFails(t) /\ ConversionMarks(t) ]_vars

\* An entry whose conversion failed has been marked and recorded, with its
\* queues as they were.
C9_MarkedSeen ==
    \E t \in Threads :
        /\ th[t].pc = "convert_scan"
        /\ last.op = "VMCIQPMarkHibernateFailed"
        /\ th[t].idx > 1
        /\ LET entry == head[th[t].idx - 1] IN
           /\ entry.hibernateFailure
           /\ VMCI_QPFLAG_LOCAL \notin entry.flags
           /\ ~queues[entry.produceQ].snapshot
           /\ ~queues[entry.consumeQ].snapshot
           /\ hibernateFailedList # <<>>
           /\ VMCI_HANDLE_EQUAL(
                 hibernateFailedList[Len(hibernateFailedList)], entry.handle)

\* The detach events of a step for a handle.
PeerDetachEvents(events, handle) ==
    {k \in 1..Len(events) :
        /\ events[k].ev = "QP_PEER_DETACH"
        /\ VMCI_HANDLE_EQUAL(events[k].handle, handle)}

HibernatingAllocRefused ==
    \A t \in Threads :
        ( /\ last'.op \in {"VMCIQueuePair_Alloc", "VMCIQueuePairAllocHelper"}
          /\ CanCall(t, "Alloc")
          /\ MutexFree
          /\ queuePairList.hibernate = 1 )
        => \A handle \in args.handles, peer \in args.peers,
              flags \in args.flags, size \in args.sizes,
              shutdown \in BOOLEAN :
              ( /\ VMCI_QPFLAG_LOCAL \notin flags
                /\ ~AllocInvalidArgs(flags, size[1], size[2])
                /\ VMCIQueuePairAllocHelper(t, shutdown, handle, peer,
                                            flags, size[1], size[2]) )
              => /\ last'.returned
                 /\ last'.result < VMCI_SUCCESS
                 /\ ~shutdown => last'.result = VMCI_ERROR_UNAVAILABLE
                 /\ queuePairList' = queuePairList
                 /\ queues' = queues
                 /\ ppnSets' = ppnSets

\* No step taken while the hibernate flag is set puts an entry without the
\* LOCAL flag in the list.
NoNonLocalInserted ==
    queuePairList.hibernate = 1
    => \A i \in NonLocal(head') : \E j \in NonLocal(head) :
          VMCI_HANDLE_EQUAL(head[j].handle, head'[i].handle)

\* The hibernate flag does not stop a request with the LOCAL flag: such a
\* request gets VMCI_ERROR_UNAVAILABLE only from the local attach case, for
\* an entry that has two references already.
LocalStillPermitted ==
    \A t \in Threads :
        ( /\ last'.op = "VMCIQueuePair_Alloc"
          /\ last'.returned
          /\ last'.result = VMCI_ERROR_UNAVAILABLE
          /\ CanCall(t, "Alloc")
          /\ MutexFree
          /\ queuePairList.hibernate = 1 )
        => \A handle \in args.handles, peer \in args.peers,
              flags \in args.flags, size \in args.sizes :
              ( /\ VMCI_QPFLAG_LOCAL \in flags
                /\ ~AllocInvalidArgs(flags, size[1], size[2])
                /\ VMCIQueuePairAllocHelper(t, FALSE, handle, peer, flags,
                                            size[1], size[2]) )
              => LET i == QueuePairList_FindEntry(head, handle) IN
                 i # 0 /\ head[i].refCount > 1

\* C11: while the hibernate flag is set, every alloc without the LOCAL flag
\* (valid arguments, device not shutting down) fails with
\* VMCI_ERROR_UNAVAILABLE and adds no entry, so no entry without the LOCAL
\* flag enters the list between the end of the sweep and the clearing of
\* the flag; local creates and local attaches are not stopped by the flag.
C11_NoNonLocalAllocWhileHibernating ==
    [][HibernatingAllocRefused /\ NoNonLocalInserted
       /\ LocalStillPermitted]_vars

\* While hibernating, an alloc has just been refused with
\* VMCI_ERROR_UNAVAILABLE though no entry of the list has two references:
\* the result comes from the hibernation check.
C11_RefusedWhileHibernating ==
    /\ queuePairList.hibernate = 1
    /\ last.op = "VMCIQueuePair_Alloc"
    /\ last.returned
    /\ last.result = VMCI_ERROR_UNAVAILABLE
    /\ head # <<>>
    /\ \A i \in 1..Len(head) :
          head[i].refCount = 1 /\ VMCI_QPFLAG_LOCAL \in head[i].flags

\* The handle is in the array.
Recorded(array, handle) ==
    \E k \in 1..Len(array) : VMCI_HANDLE_EQUAL(array[k], handle)

\* The entry is local, or it is marked and its handle is in the array.
ConvertedOrMarked(entry, array) ==
    \/ VMCI_QPFLAG_LOCAL \in entry.flags
    \/ entry.hibernateFailure /\ Recorded(array, entry.handle)

\* During the scan, every entry before the one the scan is at has been
\* dealt with: none is skipped, also after a failure.
SweptPrefixConverted ==
    \A t \in Threads :
        th[t].pc \in {"convert_scan", "convert_mark"}
        => /\ queuePairList.mutex = t
           /\ th[t].idx \in 1..(Len(head) + 1)
           /\ \A i \in 1..(th[t].idx - 1) :
                 ConvertedOrMarked(head[i], hibernateFailedList)

\* The scan returns after the last entry only, with the hibernate flag set
\* and every entry of the list dealt with.
SweepReturns ==
    \A t \in Threads :
        (th[t].pc = "convert_scan" /\ th'[t].pc = "idle")
        => /\ th[t].idx = Len(head) + 1
           /\ last'.op = "VMCIQueuePair_Convert"
           /\ last'.returned
           /\ last'.result = VMCI_SUCCESS
           /\ queuePairList'.hibernate = 1
           /\ head' = head
           /\ hibernateFailedList' = hibernateFailedList
           /\ \A i \in 1..Len(head') :
                 ConvertedOrMarked(head'[i], hibernateFailedList')

\* The conversion to local has returned with the flag set and the list
\* dealt with.
SweepDone ==
    /\ last.op = "VMCIQueuePair_Convert"
    /\ last.returned
    /\ queuePairList.hibernate = 1
    /\ \A i \in 1..Len(head) :
          ConvertedOrMarked(head[i], hibernateFailedList)

C13_FailedBecomeLocalAtWake ==
    [][ \A t \in Threads :
        (th[t].pc = "wake_drain" /\ th'[t].pc = "wake_clear")
        => \A i \in 1..Len(head) :
              ( /\ head[i].hibernateFailure
                /\ Recorded(hibernateFailedList, head[i].handle) )
              => /\ i <= Len(head')
                 /\ VMCI_QPFLAG_LOCAL \in head'[i].flags ]_vars

\* C14: hibernateFailure is true only while the hibernate flag is set: in
\* every reachable state an entry of the list with hibernateFailure has
\* queuePairList.hibernate = 1, so that after
\* VMCIQueuePair_Convert(toLocal = FALSE) no entry is marked.
C14_MarkedOnlyWhileHibernating ==
    \A i \in 1..Len(head) :
        head[i].hibernateFailure => queuePairList.hibernate = 1

\* The hypercalls among the events of a step.
HyperCalls(events) ==
    {k \in 1..Len(events) :
        events[k].ev \in {"QUEUEPAIR_ALLOC", "QUEUEPAIR_DETACH"}}

\* An alloc with the LOCAL flag, whether it creates, attaches or fails,
\* makes no hypercall, up to its return: a step with a hypercall is not a
\* step of such an alloc.
LocalAllocSilent ==
    /\ \/ HyperCalls(last'.events) = {}
       \/ \A t \in Threads :
             ( /\ last'.op \in {"VMCIQueuePair_Alloc",
                                "VMCIQueuePairAllocHelper"}
               /\ CanCall(t, "Alloc")
               /\ MutexFree )
             => \A handle \in args.handles, peer \in args.peers,
                   flags \in args.flags, size \in args.sizes,
                   shutdown \in BOOLEAN :
                   ~ ( /\ VMCI_QPFLAG_LOCAL \in flags
                       /\ ~AllocInvalidArgs(flags, size[1], size[2])
                       /\ VMCIQueuePairAllocHelper(t, shutdown, handle, peer,
                                                   flags, size[1], size[2]) )
    /\ \A t \in Threads :
          th[t].pc \in {"alloc_out", "alloc_error"}
          /\ th'[t].pc = "idle"
          => HyperCalls(last'.events) = {}

\* An alloc hypercall is for a handle that is not in the list, and the
\* entry inserted after it has not the LOCAL flag.
AllocHyperCallNonLocal ==
    \A k \in HyperCalls(last'.events) :
        last'.events[k].ev = "QUEUEPAIR_ALLOC"
        => /\ QueuePairList_FindEntry(head, last'.events[k].handle) = 0
           /\ \A i \in 1..Len(head') :
                 VMCI_HANDLE_EQUAL(head'[i].handle, last'.events[k].handle)
                 => VMCI_QPFLAG_LOCAL \notin head'[i].flags

\* A detach hypercall, from a detach, from the conversion to local or from
\* the exit, is for the handle of an entry of the list that has not the
\* LOCAL flag.
DetachHyperCallNonLocal ==
    \A k \in HyperCalls(last'.events) :
        last'.events[k].ev = "QUEUEPAIR_DETACH"
        => LET i == QueuePairList_FindEntry(head, last'.events[k].handle)
           IN  i # 0 /\ VMCI_QPFLAG_LOCAL \notin head[i].flags

\* C15: no alloc or detach hypercall is made for an entry that has the
\* LOCAL flag: a local create, a local attach, a detach of a local entry,
\* also of one the conversion made local, and the exit for a local entry
\* send nothing to the hypervisor.
C15_LocalEntriesMakeNoHyperCall ==
    [][ /\ LocalAllocSilent
        /\ AllocHyperCallNonLocal
        /\ DetachHyperCallNonLocal ]_vars

\* A detach has taken the last reference of an entry that the conversion
\* made local (its queues hold the local copies) without a hypercall.
C15_ConvertedEntryDetached ==
    \E t \in Threads :
        /\ th[t].pc = "detach_destroy"
        /\ last.op = "VMCIQueuePairDetachHelper"
        /\ last.events = <<>>
        /\ queues[HeldEntry(t)[1].produceQ].snapshot
        /\ queues[HeldEntry(t)[1].consumeQ].snapshot

\* The detach hypercall for the entry with the handle, which has not the
\* LOCAL flag, has answered VMCI_ERROR_NOT_FOUND.
NotFoundFromHyperCall(t, handle) ==
    /\ CanCall(t, "Detach")
    /\ MutexFree
    /\ QueuePairList_FindEntry(head, handle) # 0
    /\ VMCI_QPFLAG_LOCAL
          \notin head[QueuePairList_FindEntry(head, handle)].flags
    /\ VMCIQueuePairDetachHelper(t, handle)
    /\ last'.events
          = <<Event("QUEUEPAIR_DETACH", handle, VMCI_ERROR_NOT_FOUND)>>

\* C16: when the detach hypercall for an entry without the LOCAL flag
\* reports VMCI_ERROR_NOT_FOUND, the detach goes on as a successful one (to
\* VMCIQPUnmarkHibernateFailed, then refCount is decremented, the entry is
\* removed and its handle leaves hibernateFailedList) only if
\* VMCIQPMarkHibernateFailed was called for the entry before; for an entry
\* that was never marked, the call returns VMCI_ERROR_NOT_FOUND and the
\* list, with the entry and its refCount, is unchanged.
C16_NotFoundAcceptedOnlyIfMarked ==
    [][ \A t \in Threads :
        /\ \A handle \in DetachHandles :
              NotFoundFromHyperCall(t, handle)
              => IF head[QueuePairList_FindEntry(head, handle)].marked
                 THEN /\ th'[t].pc = "detach_unmark"
                      /\ th'[t].result = VMCI_SUCCESS
                 ELSE /\ last'.returned
                      /\ last'.result = VMCI_ERROR_NOT_FOUND
                      /\ head' = head
        /\ (th[t].pc = "detach_unmark" /\ th'[t].pc # "detach_unmark")
           => LET entry == head[th[t].idx] IN
              /\ entry.marked
              /\ ~Recorded(hibernateFailedList', entry.handle)
              /\ IF entry.refCount = 1
                 THEN head' = QueuePairList_RemoveEntry(head, th[t].idx)
                 ELSE head' = [head EXCEPT
                                 ![th[t].idx].refCount = @ - 1,
                                 ![th[t].idx].hibernateFailure = FALSE] ]_vars

\* The queues of the entries of a list.
QueuesOf(list) ==
    UNION {{list[i].produceQ, list[i].consumeQ} : i \in 1..Len(list)}

\* C17: VMCIQueuePair_Exit does not fail: whatever the list holds, and
\* whatever refCount its entries have, it removes and destroys every entry,
\* freeing the PPN set and the two queues of each exactly once; it sends a
\* detach datagram for each entry without the LOCAL flag and none for the
\* others, whatever the hypervisor answers; and it leaves the list empty
\* and the hibernate flag 0.
C17_ExitDestroysAll ==
    [][ (~exited /\ exited')
        => /\ last'.op = "VMCIQueuePair_Exit"
           /\ last'.returned
           /\ last'.result = VMCI_SUCCESS
           /\ head' = <<>>
           /\ queuePairList'.hibernate = 0
           /\ queuePairList'.mutex = NoThread
           /\ \A q \in DOMAIN queues :
                 IF q \in QueuesOf(head)
                 THEN queues[q].state = "allocated"
                      /\ queues'[q].state = "free"
                 ELSE queues'[q] = queues[q]
           /\ \A i \in 1..Len(head) : head[i].ppnSet
           /\ ppnSets' = ppnSets - Len(head)
           /\ Len(last'.events) = Cardinality(NonLocal(head))
           /\ \A k \in 1..Len(last'.events) :
                 last'.events[k].ev = "QUEUEPAIR_DETACH"
           /\ \A i \in 1..Len(head) :
                 Cardinality({k \in 1..Len(last'.events) :
                     VMCI_HANDLE_EQUAL(last'.events[k].handle,
                                       head[i].handle)})
                 = IF i \in NonLocal(head) THEN 1 ELSE 0 ]_vars

\* The exit has run on a list that held one entry without the LOCAL flag,
\* for which it sent the detach datagram; nothing is left allocated.
C17_ExitSeen ==
    /\ exited
    /\ last.op = "VMCIQueuePair_Exit"
    /\ Len(last.events) = 1
    /\ head = <<>>
    /\ queuePairList.hibernate = 0
    /\ ppnSets = 0
    /\ \A q \in DOMAIN queues : queues[q].state = "free"

\* Thread t takes a step of VMCIQueuePair_Convert.
ConvertStep(t) ==
    /\ th[t].pc \in {"convert_scan", "convert_mark", "wake_drain",
                     "wake_clear"}
    /\ th'[t] # th[t]

\* The step changes the list, an entry of it or the hibernate flag.
ListChanges ==
    head' # head \/ queuePairList'.hibernate # queuePairList.hibernate

\* C18 as stated: every step of VMCIQueuePair_Convert, to local or back,
\* that changes the list, the flags or the hibernateFailure mark of an
\* entry, or the hibernate flag, is taken with the list lock held, so that
\* it never falls inside the critical section of an alloc or a detach.
C18_ConvertAlwaysLocked ==
    [][ \A t \in Threads :
        (ConvertStep(t) /\ ListChanges) => queuePairList.mutex = t ]_vars

\* A thread inside the part of alloc, detach or the conversion to local
\* that runs under the list lock holds the lock: no two are inside at once.
CriticalSectionsExclusive ==
    /\ \A t \in Threads :
          th[t].pc \in {"alloc_out", "detach_unmark", "convert_scan",
                        "convert_mark"}
          => queuePairList.mutex = t
    /\ \A t, u \in Threads :
          th[t].pc \in {"convert_scan", "convert_mark"}
          => th[u].pc \notin {"alloc_out", "detach_unmark"}

\* The steps of the conversion to local hold the list lock.
SweepStepsLocked ==
    \A t \in Threads :
        ( /\ th[t].pc \in {"convert_scan", "convert_mark"}
          /\ th'[t] # th[t] )
        => queuePairList.mutex = t

\* The steps of the way back do not take the list lock; they change no
\* entry, only hibernateFailedList, under its own lock, and the flag.
WakeStepsTouchFlagOnly ==
    \A t \in Threads :
        /\ (th[t].pc = "wake_drain" /\ th'[t] # th[t])
           => /\ hibernateFailedListLock = t
              /\ queuePairList' = queuePairList
        /\ (th[t].pc = "wake_clear" /\ th'[t] # th[t])
           => /\ head' = head
              /\ queuePairList'.mutex = queuePairList.mutex
              /\ queuePairList'.hibernate = 0
              /\ hibernateFailedList' = hibernateFailedList

\* C18, amended: the conversion to local excludes alloc and detach through
\* the list lock: each of its steps that changes an entry's flags or mark,
\* or the hibernate flag, is taken with the lock held, and never while an
\* alloc or a detach is in its critical section.  The way back does not
\* take the list lock: it changes no entry, empties hibernateFailedList
\* under that list's own lock and clears the atomic hibernate flag, and
\* it may do so while an alloc or a detach is in its critical section.
C18_SweepLockedWakeNot ==
    /\ []CriticalSectionsExclusive
    /\ [][SweepStepsLocked /\ WakeStepsTouchFlagOnly]_vars

\* The way back has just cleared the hibernate flag while an alloc is in
\* its critical section, between the insertion and the unlock.
C18_FlagClearedInsideAlloc ==
    /\ last.op = "VMCIQueuePair_Convert"
    /\ last.returned
    /\ queuePairList.hibernate = 0
    /\ \E u \in Threads :
          th[u].pc = "alloc_out" /\ queuePairList.mutex = u

\* The ids in the order the loop tries them from the counter: up to the
\* last id, then from the first id above the reserved ones.
TryOrder(rid) ==
    [k \in 1..Cardinality(NonReservedIDs) |->
        IF rid + k - 1 <= IdMod - 1
        THEN rid + k - 1
        ELSE rid + k - 1 - IdMod + VMCI_RESERVED_RESOURCE_ID_MAX + 1]

\* The ids above the reserved ones that are handles of this context in
\* the list.
LiveIDs(list) ==
    {r \in NonReservedIDs :
        \E i \in 1..Len(list) :
            VMCI_HANDLE_EQUAL(list[i].handle,
                              VMCI_MAKE_HANDLE(VMCI_GetContextID, r))}

\* C19: QueuePairEntryCreate without a handle fails if and only if every
\* id above the reserved ones is the handle of an entry of this context:
\* from the counter on, wrapping to the first id above the reserved ones,
\* each id is tried once, the first free one is assigned and the counter is
\* left after it; the failure comes only when the counter is back at the
\* value it started from.
C19_FailsIffAllIDsLive ==
    [][ last'.op = "QueuePairEntryCreate"
        => LET order == TryOrder(queuePairRID)
               n     == Len(order)
               free  == {k \in 1..n : order[k] \notin LiveIDs(head)}
           IN  IF free = {}
               THEN /\ last'.result = VMCI_ERROR_NO_MEM
                    /\ queuePairRID' = queuePairRID
               ELSE LET k == CHOOSE x \in free : \A y \in free : x <= y
                    IN  /\ last'.result = VMCI_SUCCESS
                        /\ last'.handle =
                              VMCI_MAKE_HANDLE(VMCI_GetContextID, order[k])
                        /\ queuePairRID' =
                              IF k = n THEN order[1] ELSE order[k + 1] ]_vars

\* No id was free: the list has an entry of this context for every id
\* above the reserved ones, and the counter, which is not at the first id,
\* went over the overflow back to where it started.
C19_ExhaustedSeen ==
    /\ last.op = "QueuePairEntryCreate"
    /\ last.result = VMCI_ERROR_NO_MEM
    /\ LiveIDs(head) = NonReservedIDs
    /\ queuePairRID # VMCI_RESERVED_RESOURCE_ID_MAX + 1

\* The counter is above the reserved ids.
RIDAboveReserved ==
    queuePairRID \in (VMCI_RESERVED_RESOURCE_ID_MAX + 1)..(IdMod - 1)

\* The entry an alloc without a handle inserts has a handle of this
\* context with a resource id above the reserved ones, which is the handle
\* the call returns.
AutoAssignedAboveReserved ==
    \A t \in Threads :
        /\ ( /\ th[t].pc = "idle"
             /\ th'[t].pc = "alloc_out"
             /\ th'[t].oldRID # <<>> )
           => LET entry == head'[th'[t].idx] IN
              /\ Len(head') = Len(head) + 1
              /\ entry.handle.context = VMCI_GetContextID
              /\ entry.handle.resource > VMCI_RESERVED_RESOURCE_ID_MAX
              /\ entry.handle.resource <= IdMod - 1
        /\ ( /\ th[t].pc = "alloc_out"
             /\ th[t].oldRID # <<>>
             /\ th'[t].pc = "idle" )
           => /\ last'.handle.context = VMCI_GetContextID
              /\ last'.handle.resource > VMCI_RESERVED_RESOURCE_ID_MAX

\* C20: a reserved resource id (0 to VMCI_RESERVED_RESOURCE_ID_MAX) is
\* never assigned by QueuePairEntryCreate: after any number of allocs
\* without a handle, also across the overflow of the counter, the counter
\* is above VMCI_RESERVED_RESOURCE_ID_MAX, and every handle assigned has
\* the context id of this guest and a resource id above
\* VMCI_RESERVED_RESOURCE_ID_MAX.
C20_ReservedNeverAssigned ==
    []RIDAboveReserved /\ [][AutoAssignedAboveReserved]_vars

\* The counter has just overflowed: the last id was assigned to the entry
\* being inserted, and the counter is at the first id above the reserved
\* ones.
C20_OverflowSeen ==
    \E t \in Threads :
        /\ th[t].pc = "alloc_out"
        /\ th[t].oldRID = <<IdMod - 1>>
        /\ head[th[t].idx].handle
              = VMCI_MAKE_HANDLE(VMCI_GetContextID, IdMod - 1)
        /\ queuePairRID = VMCI_RESERVED_RESOURCE_ID_MAX + 1

\* A step returns a failure with the list (every entry, its refCount, flags
\* and queues), the allocator and the threads as they were: nothing is left
\* to destroy.
FailsWithNothingChanged ==
    /\ last'.returned
    /\ last'.result < VMCI_SUCCESS
    /\ queuePairList' = queuePairList
    /\ queues' = queues
    /\ ppnSets' = ppnSets
    /\ th' = th

\* An alloc with valid arguments on the handle of an entry of the list
\* that does not go on to "out:" fails with nothing changed: a step that
\* is not such a failure is not a step of such an alloc.
FoundEntryKept ==
    \/ FailsWithNothingChanged
    \/ \A t \in Threads :
          ( /\ last'.op \in {"VMCIQueuePair_Alloc", "VMCIQueuePairAllocHelper"}
            /\ th'[t].pc # "alloc_out"
            /\ CanCall(t, "Alloc")
            /\ MutexFree )
          => \A handle \in args.handles, peer \in args.peers,
                flags \in args.flags, size \in args.sizes,
                shutdown \in BOOLEAN :
                ~ ( /\ QueuePairList_FindEntry(head, handle) # 0
                    /\ ~AllocInvalidArgs(flags, size[1], size[2])
                    /\ VMCIQueuePairAllocHelper(t, shutdown, handle, peer,
                                                flags, size[1], size[2]) )

\* What "error:" is about to destroy is no queue of an entry of the list:
\* it is what the create path has built.
ErrorHoldsFreshOnly ==
    \A t \in Threads :
        th[t].pc = "alloc_error"
        => \A i \in 1..Len(head) :
              {head[i].produceQ, head[i].consumeQ} \cap HeldQueues(t) = {}

\* "error:" frees what the thread holds and leaves the list as it is.
ErrorLeavesList ==
    \A t \in Threads :
        th[t].pc = "alloc_error" /\ th'[t].pc = "idle"
        => /\ head' = head
           /\ \A q \in DOMAIN queues :
                 q \notin HeldQueues(t) => queues'[q] = queues[q]

\* C21: an alloc that finds an entry for the handle and then fails
\* (VMCI_ERROR_ALREADY_EXISTS for a non-local entry, VMCI_ERROR_UNAVAILABLE
\* at refCount 2, VMCI_ERROR_QUEUEPAIR_MISMATCH, or a failed peer attach
\* event) never destroys or removes the entry and leaves its refCount, flags
\* and queues as they were; only a failure of the create path destroys an
\* entry, the one being built, which is not in the list.
C21_FoundEntrySurvivesFailure ==
    []ErrorHoldsFreshOnly /\ [][FoundEntryKept /\ ErrorLeavesList]_vars

\* An attach has just failed because the peer attach event could not be
\* delivered, and the entry is in the list with its one reference.
C21_FailedAttachSeen ==
    /\ last.op = "VMCIQueuePair_Alloc"
    /\ last.returned
    /\ last.result < VMCI_SUCCESS
    /\ Len(last.events) = 1
    /\ last.events[1].ev = "QP_PEER_ATTACH"
    /\ LET i == QueuePairList_FindEntry(head, last.events[1].handle)
       IN  i # 0 /\ head[i].refCount = 1

\* The peer detach events among the events of a step.
PeerDetachSent(events) ==
    {k \in 1..Len(events) : events[k].ev = "QP_PEER_DETACH"}

\* What a detach of the local entry at i does, by its refCount: at 2 one
\* peer detach event, whose failure is returned with the list as it was and
\* whose success leaves one reference; at 1 no event, and the entry is
\* removed to be destroyed with VMCI_SUCCESS as the result.
LocalDetachOutcome(t, i) ==
    IF head[i].refCount = 2
    THEN /\ Cardinality(PeerDetachSent(last'.events)) = 1
         /\ Len(last'.events) = 1
         /\ last'.events[1].handle = head[i].handle
         /\ last'.returned
         /\ last'.result = last'.events[1].result
         /\ IF last'.events[1].result < VMCI_SUCCESS
            THEN queuePairList' = queuePairList
            ELSE /\ Len(head') = Len(head)
                 /\ head'[i] = [head[i] EXCEPT !.refCount = 1]
    ELSE /\ last'.events = <<>>
         /\ head[i].refCount = 1
         /\ ~last'.returned
         /\ th'[t].pc = "detach_destroy"
         /\ th'[t].result = VMCI_SUCCESS
         /\ head' = QueuePairList_RemoveEntry(head, i)

\* Every detach of a local entry of the list, from a state with the list
\* lock free, has the outcome its refCount calls for.
LocalDetachNotifiesAtTwo ==
    \A t \in Threads :
        ( /\ last'.op \in {"VMCIQueuePair_Detach", "VMCIQueuePairDetachHelper"}
          /\ CanCall(t, "Detach")
          /\ MutexFree )
        => \A handle \in DetachHandles :
              LET i == QueuePairList_FindEntry(head, handle) IN
              ( /\ i # 0
                /\ VMCI_QPFLAG_LOCAL \in head[i].flags
                /\ VMCIQueuePairDetachHelper(t, handle) )
              => LocalDetachOutcome(t, i)

\* The detach that removed the entry returns the result it had then.
DestroyReturnsResult ==
    \A t \in Threads :
        th[t].pc = "detach_destroy" /\ th'[t].pc = "idle"
        => /\ last'.returned
           /\ last'.result = th[t].result
           /\ last'.events = <<>>

\* C22: a detach of a local entry sends the local peer detach event iff the
\* entry's refCount is 2 when it is called; if the event cannot be
\* delivered the detach returns that error and the refCount is still 2; at
\* refCount 1 no event is sent and the detach returns VMCI_SUCCESS.
C22_LocalDetachNotifiesPeer ==
    [][LocalDetachNotifiesAtTwo /\ DestroyReturnsResult]_vars

\* A detach of a local entry with two references has just failed on the
\* peer detach event, and the entry still has its two references.
C22_FailedNotifySeen ==
    /\ last.op = "VMCIQueuePair_Detach"
    /\ last.returned
    /\ last.result < VMCI_SUCCESS
    /\ Len(last.events) = 1
    /\ last.events[1].ev = "QP_PEER_DETACH"
    /\ LET i == QueuePairList_FindEntry(head, last.events[1].handle)
       IN  i # 0 /\ head[i].refCount = 2

\* What each lock's holder is doing, and what else it holds.  The queue
\* mutex is held only inside the list lock, between VMCI_AcquireQueueMutex
\* and VMCI_ReleaseQueueMutex of one entry: not when the scan goes on to
\* the next entry, and not in VMCIQPMarkHibernateFailed.  The holder of
\* hibernateFailedListLock across steps is the wake, which holds no other
\* lock.  A thread outside a call holds nothing.
LockNesting ==
    \A t \in Threads :
        /\ th[t].queueMutex # 0
              => th[t].pc = "convert_locked" /\ queuePairList.mutex = t
        /\ th[t].pc \in {"convert_scan", "convert_mark"}
              => th[t].queueMutex = 0 /\ queuePairList.mutex = t
        /\ hibernateFailedListLock = t
              => /\ th[t].pc = "wake_drain"
                 /\ queuePairList.mutex # t
                 /\ th[t].queueMutex = 0
        /\ th[t].pc = "idle"
              => /\ queuePairList.mutex # t
                 /\ hibernateFailedListLock # t
                 /\ th[t].queueMutex = 0

\* The list lock is taken by a thread that enters a call, which holds no
\* lock; the queue mutex and hibernateFailedListLock are taken by a thread
\* that holds no hibernateFailedListLock, resp. no queue mutex.
LockOrder ==
    \A t \in Threads :
        /\ (queuePairList.mutex # t /\ queuePairList'.mutex = t)
              => /\ th[t].pc = "idle"
                 /\ th[t].queueMutex = 0
                 /\ hibernateFailedListLock # t
        /\ (th[t].queueMutex = 0 /\ th'[t].queueMutex # 0)
              => queuePairList.mutex = t /\ hibernateFailedListLock # t
        /\ (th[t].pc \in {"convert_mark", "detach_unmark"}
            /\ th'[t].pc # th[t].pc)
              => /\ th[t].queueMutex = 0
                 /\ hibernateFailedListLock = NoThread

\* The steps a thread takes inside a call it has entered.
Continue(t) ==
    \/ AllocOut(t)
    \/ AllocError(t)
    \/ DetachUnmark(t)
    \/ DetachDestroy(t)
    \/ ConvertSkip(t)
    \/ ConvertAcquire(t)
    \/ ConvertLocked(t)
    \/ ConvertMark(t)
    \/ ConvertDone(t)
    \/ WakeDrain(t)
    \/ WakeClear(t)

\* When a thread is inside a call, some thread inside a call can take its
\* next step; a thread that cannot waits for a lock whose holder can.
NoDeadlock ==
    /\ (\E t \in Threads : th[t].pc # "idle")
          => \E t \in Threads : ENABLED Continue(t)
    /\ \A t \in Threads :
          (th[t].pc # "idle" /\ ~ENABLED Continue(t))
          => /\ hibernateFailedListLock \in Threads \ {t}
             /\ ENABLED Continue(hibernateFailedListLock)

\* C23: the locks nest without a cycle in every interleaving of alloc,
\* detach, convert and exit: the conversion takes an entry's queue mutex
\* only while it holds the list lock, and has released it, on the success
\* path and on each of the three failure paths, before it visits the next
\* entry and before it takes hibernateFailedListLock; no thread takes the
\* list lock while it holds a queue mutex or hibernateFailedListLock; no
\* deadlock is reachable.
C23_LockNestingAcyclic ==
    [](LockNesting /\ NoDeadlock) /\ [][LockOrder]_vars

\* The sweep, holding the list lock, waits in VMCIQPMarkHibernateFailed for
\* hibernateFailedListLock, which the other thread holds in the wake.
C23_SweepWaitsForWake ==
    \E t \in Threads :
        /\ th[t].pc = "convert_mark"
        /\ queuePairList.mutex = t
        /\ hibernateFailedListLock \in Threads \ {t}
        /\ ~ENABLED Continue(t)

\* The queues of the entries of a list.
ListQueues(list) ==
    UNION {{list[i].produceQ, list[i].consumeQ} : i \in 1..Len(list)}

\* An entry a thread holds to destroy has refCount 0, is not in the list
\* (no entry of the list has one of its queues), and its thread has
\* released the list lock.
DyingUnreachable ==
    \A t \in Threads :
        HeldEntry(t) # <<>>
        => /\ th[t].pc \in {"alloc_error", "detach_destroy"}
           /\ HeldEntry(t)[1].refCount = 0
           /\ HeldQueues(t) \cap ListQueues(head) = {}
           /\ queuePairList.mutex # t
           /\ \A u \in Threads \ {t} :
                 HeldEntry(u) # <<>>
                 => HeldQueues(t) \cap HeldQueues(u) = {}

\* What alloc, detach and convert can find is alive: every entry of the
\* list has its own two queues, allocated, and its PPN set; no queue was
\* freed twice.
ListEntriesAlive ==
    /\ \A i \in 1..Len(head) :
          /\ queues[head[i].produceQ].state = "allocated"
          /\ queues[head[i].consumeQ].state = "allocated"
          /\ head[i].produceQ # head[i].consumeQ
          /\ head[i].ppnSet
          /\ \A j \in 1..Len(head) :
                i # j => {head[i].produceQ, head[i].consumeQ}
                            \cap {head[j].produceQ, head[j].consumeQ} = {}
    /\ \A q \in DOMAIN queues : queues[q].state # "corrupt"

\* The destruction by detach and by a failed create is a step of its own,
\* taken without the list lock, that frees the queues of the entry held and
\* changes neither the list nor another queue.
DestroysOutsideLock ==
    \A t \in Threads :
        ( /\ th[t].pc \in {"alloc_error", "detach_destroy"}
          /\ HeldEntry(t) # <<>>
          /\ th'[t].pc = "idle" )
        => /\ queuePairList.mutex # t
           /\ queuePairList' = queuePairList
           /\ \A q \in DOMAIN queues :
                 IF q \in HeldQueues(t)
                 THEN queues[q].state = "allocated"
                      /\ queues'[q].state = "free"
                 ELSE queues'[q] = queues[q]

\* C24: an entry is destroyed only when its refCount is 0 and it is not in
\* the list, and detach and a failed create destroy it after they have
\* released the list lock; so no concurrent alloc, detach or convert finds
\* or uses an entry that is being destroyed or has been: the entries of the
\* list are alive.
C24_DestroyedOnlyUnreferenced ==
    [](DyingUnreachable /\ ListEntriesAlive) /\ [][DestroysOutsideLock]_vars

\* A detach holds the entry it has removed, about to destroy it, while the
\* other thread holds the list lock inside a call of its own.
C24_DestroyBesideLockHolder ==
    \E t \in Threads :
        /\ th[t].pc = "detach_destroy"
        /\ HeldEntry(t) # <<>>
        /\ queuePairList.mutex \in Threads \ {t}

\* An entry without the LOCAL flag enters the list in the step that made
\* the one alloc hypercall for its handle, which succeeded; it enters with
\* no reference yet and the list lock held.
InsertedAfterHyperCall ==
    Len(head') > Len(head)
    => LET new == head'[Len(head')] IN
       /\ Len(head') = Len(head) + 1
       /\ new.refCount = 0
       /\ queuePairList'.mutex # NoThread
       /\ VMCI_QPFLAG_LOCAL \notin new.flags
             => /\ last'.events
                      = <<Event("QUEUEPAIR_ALLOC", new.handle, VMCI_SUCCESS)>>
                /\ queuePairList.hibernate = 0
                /\ QueuePairList_FindEntry(head, new.handle) = 0

\* An alloc hypercall that fails sends the call to "error:" with that
\* result and the list as it was, and "error:" returns the result with the
\* list as it was: the entry is never inserted.
FailedHyperCallNotInserted ==
    /\ \A k \in HyperCalls(last'.events) :
          ( /\ last'.events[k].ev = "QUEUEPAIR_ALLOC"
            /\ last'.events[k].result < VMCI_SUCCESS )
          => /\ Len(last'.events) = 1
             /\ queuePairList' = queuePairList
             /\ \E t \in Threads :
                   /\ th[t].pc = "idle"
                   /\ th'[t].pc = "alloc_error"
                   /\ th'[t].result = last'.events[k].result
    /\ \A t \in Threads :
          (th[t].pc = "alloc_error" /\ th'[t].pc = "idle")
          => /\ queuePairList' = queuePairList
             /\ last'.returned
             /\ last'.result = th[t].result
             /\ last'.events = <<>>

\* "out:" of a create gives the entry its one reference and returns
\* VMCI_SUCCESS without another hypercall.
CreateLeavesOneReference ==
    \A t \in Threads :
        ( /\ th[t].pc = "alloc_out"
          /\ th'[t].pc = "idle"
          /\ VMCI_QPFLAG_LOCAL \notin head[th[t].idx].flags )
        => /\ head[th[t].idx].refCount = 0
           /\ head'[th[t].idx].refCount = 1
           /\ Len(head') = Len(head)
           /\ last'.returned
           /\ last'.result = VMCI_SUCCESS
           /\ last'.events = <<>>

\* A detach of the entry at i, which has not the LOCAL flag, makes the one
\* detach hypercall for its handle.  When the detach goes through, the
\* entry had one reference and is removed with none, at once or, for an
\* entry with hibernateFailure, after VMCIQPUnmarkHibernateFailed.
NonLocalDetachOutcome(t, i) ==
    /\ Len(last'.events) = 1
    /\ last'.events[1].ev = "QUEUEPAIR_DETACH"
    /\ last'.events[1].handle = head[i].handle
    /\ \/ /\ last'.returned
          /\ last'.result < VMCI_SUCCESS
          /\ last'.result = last'.events[1].result
          /\ queuePairList' = queuePairList
       \/ /\ th'[t].pc = "detach_destroy"
          /\ head[i].refCount = 1
          /\ HeldEntry(t)'[1].refCount = 0
          /\ head' = QueuePairList_RemoveEntry(head, i)
          /\ QueuePairList_FindEntry(head', head[i].handle) = 0
       \/ /\ th'[t].pc = "detach_unmark"
          /\ th'[t].idx = i
          /\ head[i].refCount = 1
          /\ head' = head

\* Every detach on the handle of an entry without the LOCAL flag, from a
\* state with the list lock free, has that outcome; the step after
\* VMCIQPUnmarkHibernateFailed removes the entry without a hypercall, and
\* the destruction returns without one.
NonLocalDetachOnce ==
    /\ \A t \in Threads :
          ( /\ last'.op \in {"VMCIQueuePair_Detach",
                             "VMCIQueuePairDetachHelper"}
            /\ CanCall(t, "Detach")
            /\ MutexFree )
          => \A handle \in DetachHandles :
                LET i == QueuePairList_FindEntry(head, handle) IN
                ( /\ i # 0
                  /\ VMCI_QPFLAG_LOCAL \notin head[i].flags
                  /\ VMCIQueuePairDetachHelper(t, handle) )
                => NonLocalDetachOutcome(t, i)
    /\ \A t \in Threads :
          (th[t].pc = "detach_unmark" /\ th'[t].pc # "detach_unmark")
          => /\ th'[t].pc = "detach_destroy"
             /\ head' = QueuePairList_RemoveEntry(head, th[t].idx)
             /\ HeldEntry(t)'[1].refCount = 0
             /\ last'.events = <<>>
    /\ \A t \in Threads :
          (th[t].pc = "detach_destroy" /\ th'[t].pc = "idle")
          => /\ last'.events = <<>>
             /\ last'.result >= VMCI_SUCCESS
             /\ head' = head

\* C25: for a queue pair without the LOCAL flag that is created and later
\* detached (the detach goes through) outside hibernation: the alloc
\* hypercall is made exactly once and has succeeded before the entry is
\* inserted in the list, the create leaves refCount = 1, and the detach
\* makes the detach hypercall exactly once, takes refCount to 0 and removes
\* the entry; if the alloc hypercall fails the entry is never inserted.
C25_NonLocalLifecycle ==
    [][ /\ InsertedAfterHyperCall
        /\ FailedHyperCallNotInserted
        /\ CreateLeavesOneReference
        /\ NonLocalDetachOnce ]_vars

\* Outside hibernation, a detach has removed an entry after its one detach
\* hypercall succeeded, and is about to destroy it.
C25_DetachedAfterHyperCall ==
    \E t \in Threads :
        /\ th[t].pc = "detach_destroy"
        /\ queuePairList.hibernate = 0
        /\ Len(last.events) = 1
        /\ last.events[1].ev = "QUEUEPAIR_DETACH"
        /\ last.events[1].result = VMCI_SUCCESS
        /\ QueuePairList_FindEntry(head, last.events[1].handle) = 0
        /\ HeldEntry(t)[1].refCount = 0

\* The VMCIQueueHeader_Init calls among the events of a step.
HeaderInits(events) ==
    {k \in 1..Len(events) : events[k].ev = "QueueHeader_Init"}

\* "out:" runs for a create when the thread has the queues as the entry
\* has them, and for a local attach when it has them swapped.
OutOfCreate(t) ==
    /\ th[t].pc = "alloc_out"
    /\ th[t].produceQ = head[th[t].idx].produceQ
    /\ th[t].consumeQ = head[th[t].idx].consumeQ

OutOfAttach(t) ==
    /\ th[t].pc = "alloc_out"
    /\ th[t].produceQ = head[th[t].idx].consumeQ
    /\ th[t].consumeQ = head[th[t].idx].produceQ

\* Only "out:" of a create of an entry with the LOCAL flag initializes
\* headers: those of the two queues of the entry, once each.
InitOnlyOnLocalCreate ==
    HeaderInits(last'.events) # {}
    => \E t \in Threads :
          LET entry == head[th[t].idx] IN
          /\ OutOfCreate(t)
          /\ th'[t].pc = "idle"
          /\ VMCI_QPFLAG_LOCAL \in entry.flags
          /\ entry.refCount = 0
          /\ last'.events
                = <<Event("QueueHeader_Init", entry.handle, entry.produceQ),
                    Event("QueueHeader_Init", entry.handle, entry.consumeQ)>>

\* "out:" of a create initializes the headers when the entry has the LOCAL
\* flag and not when it has not; "out:" of a local attach, which finds the
\* entry with one reference whatever attaches and detaches came before,
\* does not.
OutInitializes ==
    \A t \in Threads :
        (th[t].pc = "alloc_out" /\ th'[t].pc = "idle")
        => /\ OutOfCreate(t) \/ OutOfAttach(t)
           /\ ~(OutOfCreate(t) /\ OutOfAttach(t))
           /\ OutOfCreate(t)
                 => (HeaderInits(last'.events) # {}
                       <=> VMCI_QPFLAG_LOCAL \in head[th[t].idx].flags)
           /\ OutOfAttach(t)
                 => /\ HeaderInits(last'.events) = {}
                    /\ VMCI_QPFLAG_LOCAL \in head[th[t].idx].flags
                    /\ head[th[t].idx].refCount = 1
                    /\ head'[th[t].idx].refCount = 2

\* C26: alloc initializes the headers of the two queues only on a local
\* create (LOCAL flag, refCount becoming 1): a create without the LOCAL
\* flag never does, and a local attach never does it again, also not an
\* attach that follows an attach and a detach of the same entry.
C26_HeadersInitOnLocalCreateOnly ==
    [][InitOnlyOnLocalCreate /\ OutInitializes]_vars

\* A local attach has just returned the queues swapped, without a
\* VMCIQueueHeader_Init, and the entry has its two references.
C26_AttachWithoutInit ==
    /\ last.op = "VMCIQueuePair_Alloc"
    /\ last.returned
    /\ last.result = VMCI_SUCCESS
    /\ last.events = <<>>
    /\ LET i == QueuePairList_FindEntry(head, last.handle) IN
       /\ i # 0
       /\ VMCI_QPFLAG_LOCAL \in head[i].flags
       /\ head[i].refCount = 2
       /\ last.produceQ = head[i].consumeQ
       /\ last.consumeQ = head[i].produceQ

\* The handle is of another context, or the peer is set and is not this
\* context.
NoAccess(handle, peer) ==
    \/ handle.context # VMCI_GetContextID
    \/ peer # VMCI_INVALID_ID /\ peer # VMCI_GetContextID

\* What a create with the LOCAL flag that is to be refused does: it fails,
\* at once or through "error:", with the list as it was and no hypercall;
\* when its queues, entry and PPN set were allocated, so that the checks
\* of the local create case are what fails, the result is
\* VMCI_ERROR_NO_ACCESS for the context or peer and VMCI_ERROR_NOT_FOUND
\* for ATTACH_ONLY alone.
LocalCreateOutcome(t, handle, peer) ==
    /\ queuePairList' = queuePairList
    /\ HyperCalls(last'.events) = {}
    /\ \/ /\ last'.returned
          /\ last'.result < VMCI_SUCCESS
          /\ th' = th
       \/ /\ th'[t].pc = "alloc_error"
          /\ th'[t].result < VMCI_SUCCESS
          /\ (HeldEntry(t)' # <<>> /\ HeldEntry(t)'[1].ppnSet)
                => th'[t].result = IF NoAccess(handle, peer)
                                   THEN VMCI_ERROR_NO_ACCESS
                                   ELSE VMCI_ERROR_NOT_FOUND

\* Every create with the LOCAL flag and such a handle, peer or flag has
\* that outcome.  (A step that fails with nothing changed has it whatever
\* the arguments.)
LocalCreateRefused ==
    \A t \in Threads :
        ( /\ last'.op \in {"VMCIQueuePair_Alloc", "VMCIQueuePairAllocHelper"}
          /\ ~(FailsWithNothingChanged /\ HyperCalls(last'.events) = {})
          /\ CanCall(t, "Alloc")
          /\ MutexFree )
        => \A handle \in args.handles, peer \in args.peers,
              flags \in args.flags, size \in args.sizes,
              shutdown \in BOOLEAN :
              ( /\ VMCI_QPFLAG_LOCAL \in flags
                /\ NoAccess(handle, peer) \/ VMCI_QPFLAG_ATTACH_ONLY \in flags
                /\ QueuePairList_FindEntry(head, handle) = 0
                /\ ~AllocInvalidArgs(flags, size[1], size[2])
                /\ VMCIQueuePairAllocHelper(t, shutdown, handle, peer,
                                            flags, size[1], size[2]) )
              => LocalCreateOutcome(t, handle, peer)

\* "error:" returns the result it was entered with and leaves the list.
ErrorReturnsResult ==
    \A t \in Threads :
        (th[t].pc = "alloc_error" /\ th'[t].pc = "idle")
        => /\ last'.result = th[t].result
           /\ HyperCalls(last'.events) = {}
           /\ queuePairList' = queuePairList

\* An attach with ATTACH_ONLY, the flags of the entry and its sizes
\* mirrored, to a local entry with one reference goes the way of an attach:
\* the peer attach event, and "out:" unless the event cannot be delivered.
AttachOnlyAttaches ==
    \A t \in Threads :
        ( /\ last'.op \in {"VMCIQueuePair_Alloc", "VMCIQueuePairAllocHelper"}
          /\ CanCall(t, "Alloc")
          /\ MutexFree )
        => \A i \in 1..Len(head), peer \in args.peers, flags \in args.flags :
              ( /\ VMCI_QPFLAG_LOCAL \in head[i].flags
                /\ head[i].refCount = 1
                /\ VMCI_QPFLAG_ATTACH_ONLY \in flags
                /\ flags = head[i].flags \cup {VMCI_QPFLAG_ATTACH_ONLY}
                /\ VMCIQueuePairAllocHelper(t, FALSE, head[i].handle, peer,
                                            flags, head[i].consumeSize,
                                            head[i].produceSize) )
              => /\ Len(last'.events) = 1
                 /\ last'.events[1].ev = "QP_PEER_ATTACH"
                 /\ IF last'.events[1].result < VMCI_SUCCESS
                    THEN /\ last'.returned
                         /\ last'.result = last'.events[1].result
                    ELSE /\ th'[t].pc = "alloc_out"
                         /\ th'[t].idx = i

\* C27: a create with the LOCAL flag fails with VMCI_ERROR_NO_ACCESS when
\* the context of the handle is not the caller's or the peer is neither
\* VMCI_INVALID_ID nor the caller's context, and with VMCI_ERROR_NOT_FOUND
\* when ATTACH_ONLY is set (the checks in this order, once the queues, the
\* entry and the PPN set are allocated); in each case no entry is inserted
\* and no hypercall is made.  An attach with ATTACH_ONLY to a local entry is
\* not refused for that flag.
C27_LocalCreateChecks ==
    [][LocalCreateRefused /\ ErrorReturnsResult /\ AttachOnlyAttaches]_vars

\* A create with the LOCAL flag and ATTACH_ONLY has just been refused by
\* the check for that flag: no entry is in the list, and "error:" is about
\* to free what was allocated and return VMCI_ERROR_NOT_FOUND.
C27_AttachOnlyCreateRefused ==
    \E t \in Threads :
        /\ th[t].pc = "alloc_error"
        /\ th[t].result = VMCI_ERROR_NOT_FOUND
        /\ last.op = "VMCIQueuePairAllocHelper"
        /\ last.events = <<>>
        /\ HeldEntry(t) # <<>>
        /\ HeldEntry(t)[1].ppnSet
        /\ head = <<>>

\* An entry without the LOCAL flag has one reference; the only exception
\* is the entry a create has just inserted, until "out:" of that create,
\* which still holds the list lock, gives it the reference.
NonLocalOneReference ==
    \A i \in 1..Len(head) :
        VMCI_QPFLAG_LOCAL \notin head[i].flags
        => \/ head[i].refCount = 1
           \/ /\ head[i].refCount = 0
              /\ \E t \in Threads :
                    /\ th[t].pc = "alloc_out"
                    /\ th[t].idx = i
                    /\ queuePairList.mutex = t

\* An alloc on the handle of an entry without the LOCAL flag fails with
\* the list as it was.
NonLocalAttachRejected ==
    \/ FailsWithNothingChanged
    \/ \A t \in Threads :
          ( /\ last'.op \in {"VMCIQueuePair_Alloc", "VMCIQueuePairAllocHelper"}
            /\ CanCall(t, "Alloc")
            /\ MutexFree )
          => \A i \in 1..Len(head), peer \in args.peers,
                flags \in args.flags, size \in args.sizes,
                shutdown \in BOOLEAN :
                ~ ( /\ VMCI_QPFLAG_LOCAL \notin head[i].flags
                    /\ ~AllocInvalidArgs(flags, size[1], size[2])
                    /\ VMCIQueuePairAllocHelper(t, shutdown, head[i].handle,
                                                peer, flags, size[1],
                                                size[2]) )

\* Where detach takes VMCI_ERROR_NOT_FOUND from the hypercall for success
\* because of hibernateFailure, the entry has one reference.
AssertionHolds ==
    \A k \in HyperCalls(last'.events) :
        LET i == QueuePairList_FindEntry(head, last'.events[k].handle) IN
        ( /\ last'.op \in {"VMCIQueuePair_Detach", "VMCIQueuePairDetachHelper"}
          /\ last'.events[k].result = VMCI_ERROR_NOT_FOUND
          /\ i # 0
          /\ head[i].hibernateFailure )
        => head[i].refCount = 1

\* A detach that goes through and leaves the entry in the list is a detach
\* of a local entry that had two references: a detach of an entry without
\* the LOCAL flag that goes through removes it.
DetachKeepsLocalOnly ==
    ( /\ last'.op = "VMCIQueuePair_Detach"
      /\ last'.returned
      /\ last'.result >= VMCI_SUCCESS
      /\ \A t \in Threads : th[t].pc = "detach_destroy" => th' = th )
    => /\ \A t \in Threads : th[t].pc = "detach_unmark" => th' = th
       /\ Len(last'.events) = 1
       /\ last'.events[1].ev = "QP_PEER_DETACH"
       /\ LET i == QueuePairList_FindEntry(head, last'.events[1].handle)
          IN  /\ i # 0
              /\ VMCI_QPFLAG_LOCAL \in head[i].flags
              /\ head[i].refCount = 2

\* C28: every entry of the list without the LOCAL flag has refCount 1 in
\* every reachable state, but for the entry its create still holds under
\* the list lock before "out:" (an alloc on its handle is always refused);
\* so refCount is 1 where detach asserts it, in the branch for
\* hibernateFailure and VMCI_ERROR_NOT_FOUND, and a detach of such an entry
\* that goes through always removes it.
C28_NonLocalHasOneReference ==
    /\ []NonLocalOneReference
    /\ [][ /\ NonLocalAttachRejected
           /\ AssertionHolds
           /\ DetachKeepsLocalOnly ]_vars

\* A detach of an entry that the conversion marked has had
\* VMCI_ERROR_NOT_FOUND from the hypercall and goes on as a success; the
\* entry has its one reference.
C28_NotFoundBranchTaken ==
    \E t \in Threads :
        /\ th[t].pc = "detach_unmark"
        /\ th[t].result = VMCI_SUCCESS
        /\ Len(last.events) = 1
        /\ last.events[1].result = VMCI_ERROR_NOT_FOUND
        /\ head[th[t].idx].marked
        /\ head[th[t].idx].hibernateFailure
        /\ VMCI_QPFLAG_LOCAL \notin head[th[t].idx].flags
        /\ head[th[t].idx].refCount = 1

\* C29: after any sequence of alloc, detach and convert calls, also with
\* two conversions to local without a wake between them, no handle is in
\* hibernateFailedList more than once, and every handle in it is the handle
\* of an entry of the list that has not the LOCAL flag and has
\* hibernateFailure set.  (Stated for the states in which no call is under
\* way.)
C29_FailedSetMatchesList ==
    (\A t \in Threads : th[t].pc = "idle")
    => /\ \A j, k \in 1..Len(hibernateFailedList) :
             VMCI_HANDLE_EQUAL(hibernateFailedList[j], hibernateFailedList[k])
             => j = k
       /\ \A k \in 1..Len(hibernateFailedList) :
             LET i == QueuePairList_FindEntry(head, hibernateFailedList[k])
             IN  /\ i # 0
                 /\ VMCI_QPFLAG_LOCAL \notin head[i].flags
                 /\ head[i].hibernateFailure


(***************************************************************************)
(* C30: in every reachable state where the hibernate flag is set and the   *)
(* registry lock is free, every entry of the registry without the LOCAL    *)
(* flag has its handle in hibernateFailedList, under any interleaving of   *)
(* alloc, detach, the sweep and the wake.                                  *)
(***************************************************************************)
NonLocalRecorded ==
    \A i \in NonLocal(queuePairList.head) :
       \E k \in 1..Len(hibernateFailedList) :
          VMCI_HANDLE_EQUAL(hibernateFailedList[k],
                            queuePairList.head[i].handle)

C30_NonLocalWhileHibernatingRecorded ==
    (queuePairList.hibernate = 1 /\ MutexFree) => NonLocalRecorded

\* The same with no wake between its while loop and its Atomic_Write: this
\* holds when one thread only enters and leaves hibernation, and fails when
\* a wake runs beside the sweep of another thread.
WakeUnderWay == \E t \in Threads : th[t].pc \in {"wake_drain", "wake_clear"}

NonLocalRecordedOutsideWake ==
    (queuePairList.hibernate = 1 /\ MutexFree /\ ~WakeUnderWay)
    => NonLocalRecorded

=============================================================================
